---- MODULE Spec2Model ----
(***************************************************************************)
(* Steam backup report: the bounded worker pool (mapWithConcurrency), the  *)
(* version resolution with retry (getLatestBuild) and the reconciliation   *)
(* of the games catalog (main) of src/src/index.ts, second variant; main   *)
(* run after run; the status rules on their own; and the single-file       *)
(* program steam-backup-report.ts.                                         *)
(***************************************************************************)
EXTENDS Integers, Sequences, FiniteSets, TLC

VARIABLES
    items,       \* mapWithConcurrency: the items array (gamesToCheck in main)
    limit,       \* mapWithConcurrency: the limit argument, counted in halves
    results,     \* mapWithConcurrency: the results array, one slot per item
    nextIndex,   \* mapWithConcurrency: the shared index counter
    workers,     \* one record per worker() call: where it is suspended
    poolState,   \* the promise of mapWithConcurrency: idle/running/returned/rejected
    events,      \* history: the mapper calls started and settled, in order
    dataFile,    \* games.json on disk
    gamesData,   \* main: the catalog in memory, keyed by property key
    isActions,   \* main: isGitHubActions()
    mainState,   \* main: idle/resolving/finished/aborted/fatal
    clock,       \* the wall clock (Date.now()), in milliseconds
    oracleCalls, \* history: runSteamCmdAppInfo invocations per item of this run
    applied,     \* history: the locals of the latest catalog update of the mapper
    scanned,     \* main: localBackups, what getLocalBackups returned to this run
    proc,        \* the process: report written, git outcome, last log line, exit code
    arg,         \* the arguments a function is called with, when checked on its own
    out          \* the value that call returned

poolVars == <<items, limit, results, nextIndex, workers, poolState, events>>

mainVars == <<dataFile, gamesData, isActions, mainState, clock,
              oracleCalls, applied, scanned, proc, arg, out>>

vars == <<items, limit, results, nextIndex, workers, poolState, events,
          dataFile, gamesData, isActions, mainState, clock,
          oracleCalls, applied, scanned, proc, arg, out>>

----------------------------------------------------------------------------
(* Bounds of the model *)

MaxItems == 3      \* longest item list handed to the pool
MaxLimit == 3      \* largest whole limit handed to the pool
MaxClock == 2      \* the wall clock stops advancing here
MaxBuild == 6      \* largest build number handed to the status rules alone

----------------------------------------------------------------------------
(* JavaScript values: numbers, null and undefined are kept apart *)

Num(n) == [t |-> "number", v |-> n]
Null == [t |-> "null", v |-> 0]
Undefined == [t |-> "undefined", v |-> 0]

Min(a, b) == IF a < b THEN a ELSE b
Max(a, b) == IF a > b THEN a ELSE b

----------------------------------------------------------------------------
(* mapWithConcurrency *)

\* Math.floor(limit); limit is counted in halves, so 3 stands for 1.5
Floor(l) == l \div 2

\* const concurrency = Math.max(1, Math.floor(limit))
ConcurrencyCeil(l) == Max(1, (l + 1) \div 2)
Concurrency(l) == Max(1, Floor(l))

\* new Array(Math.min(concurrency, items.length)): the workers started
WorkerCountAll(its, l) == Len(its)
WorkerCount(its, l) == Min(Concurrency(l), Len(its))

\* new Array(items.length): every slot empty
EmptySlot == [set |-> FALSE, val |-> Undefined]
NewResults(its) == [i \in 1..Len(its) |-> EmptySlot]

\* results[currentIndex] = <value>; currentIndex counts from 0
StoreResultPush(res, currentIndex, val) ==
    LET free == {i \in DOMAIN res : ~res[i].set}
        first == CHOOSE i \in free : \A j \in free : i <= j
    IN  [res EXCEPT ![first] = [set |-> TRUE, val |-> val]]
StoreResult(res, currentIndex, val) ==
    [res EXCEPT ![currentIndex + 1] = [set |-> TRUE, val |-> val]]

\* The positions at which a worker has a mapper call in flight
MapperPcs == {"pending", "oracle1", "oracle2", "review"}

Worker(pc, currentIndex) ==
    [pc |-> pc, currentIndex |-> currentIndex,
     buildId |-> Null, timeUpdated |-> Null]

\* if (currentIndex >= items.length) return
Exhausted(currentIndex, its) == currentIndex >= Len(its)

\* nextIndex++ leaves nextIndex one higher than the index claimed
PostIncrementStuck(n) == n
PostIncrement(n) == n + 1

\* One pass through the head of worker()'s loop:
\*   const currentIndex = nextIndex++;
\*   if (currentIndex >= items.length) return;
\*   ... mapper(items[currentIndex]) runs up to its first await (startPc)
Claim(n, its, startPc) ==
    IF Exhausted(n, its) THEN Worker("done", n) ELSE Worker(startPc, n)

ClaimEvents(ev, n, its) ==
    IF Exhausted(n, its) THEN ev ELSE Append(ev, [e |-> "start", i |-> n])

\* .fill(null).map(() => worker()): the workers are started one after the
\* other, each running synchronously up to the first await of its mapper
RECURSIVE SpawnWorkers(_, _, _)
SpawnWorkers(k, its, startPc) ==
    IF k = 0
    THEN [workers |-> <<>>, nextIndex |-> 0, events |-> <<>>]
    ELSE LET st == SpawnWorkers(k - 1, its, startPc)
         IN  [workers |-> Append(st.workers, Claim(st.nextIndex, its, startPc)),
              nextIndex |-> PostIncrement(st.nextIndex),
              events |-> ClaimEvents(st.events, st.nextIndex, its)]

\* The synchronous part of a call of mapWithConcurrency(items, limit, mapper)
CallPool(its, l, startPc) ==
    LET st == SpawnWorkers(WorkerCount(its, l), its, startPc)
    IN  /\ items' = its
        /\ limit' = l
        /\ results' = NewResults(its)
        /\ nextIndex' = st.nextIndex
        /\ workers' = st.workers
        /\ events' = st.events
        /\ poolState' = "running"

\* results[currentIndex] = await mapper(...) resumes with val, and the
\* worker goes round its loop once more
WorkerResumes(w, val, startPc) ==
    LET currentIndex == workers[w].currentIndex
    IN  /\ results' = StoreResult(results, currentIndex, val)
        /\ workers' = [workers EXCEPT ![w] = Claim(nextIndex, items, startPc)]
        /\ events' = ClaimEvents(
                        Append(events, [e |-> "settle", i |-> currentIndex]),
                        nextIndex, items)
        /\ nextIndex' = PostIncrement(nextIndex)

\* await mapper(...) throws: worker() rejects, which rejects Promise.all and
\* with it mapWithConcurrency; the other workers are not cancelled
WorkerThrows(w) ==
    /\ workers' = [workers EXCEPT ![w].pc = "failed"]
    /\ events' = Append(events, [e |-> "settle", i |-> workers[w].currentIndex])
    /\ poolState' = IF poolState = "running" THEN "rejected" ELSE poolState
    /\ UNCHANGED <<results, nextIndex>>

\* await Promise.all(workers) is fulfilled once every worker() has returned
PromiseAllFulfilledNonEmpty(ws) ==
    /\ ws # <<>>
    /\ \A w \in DOMAIN ws : ws[w].pc = "done"
PromiseAllRace(ws) == ws = <<>> \/ \E w \in DOMAIN ws : ws[w].pc = "done"
PromiseAllFulfilled(ws) == \A w \in DOMAIN ws : ws[w].pc = "done"

----------------------------------------------------------------------------
(* The pool on its own: any item list, any limit, a mapper that takes its  *)
(* time and may throw                                                      *)

PoolItemValues == {"a", "b"}

RECURSIVE SeqsUpTo(_, _)
SeqsUpTo(S, n) ==
    IF n = 0
    THEN {<<>>}
    ELSE LET shorter == SeqsUpTo(S, n - 1)
         IN  shorter \cup {Append(s, x) : s \in shorter, x \in S}

PoolInputs == SeqsUpTo(PoolItemValues, MaxItems)

\* limits -1, -0.5, 0, 0.5, 1, 1.5, ... up to MaxLimit + 0.5, in halves
PoolLimits == (0 - 2)..(2 * MaxLimit + 1)

\* The mapper of the pool on its own: a function of the item alone
Mapper(item) == [of |-> item]

\* fetchSteamReviewSummary: the value it resolves with on every failure
AllNullReview ==
    [ratingPercent |-> Null, total |-> Null, positive |-> Null,
     negative |-> Null, summary |-> Null]

NoApplied ==
    [done |-> FALSE, threw |-> FALSE, key |-> "", prevBuild |-> Undefined,
     prevDate |-> Undefined, latestBuild |-> Null, latestTimeUpdated |-> Null,
     now |-> 0, status |-> "", review |-> AllNullReview, reviewKind |-> ""]

\* The process before main has got anywhere: no report, no git command, no
\* "finished" line, and no exit code yet
NoEffects ==
    [report |-> FALSE, git |-> "none", finished |-> FALSE, exitCode |-> 0 - 1]

\* games.json: absent, or present with text that JSON.parse accepts or not
NoFile == [exists |-> FALSE, parses |-> TRUE, data |-> <<>>]
Malformed == [exists |-> TRUE, parses |-> FALSE, data |-> <<>>]

\* No function is being checked on its own
NoCall == [f |-> ""]

PoolIdle ==
    /\ items = <<>>
    /\ limit = 0
    /\ results = <<>>
    /\ nextIndex = 0
    /\ workers = <<>>
    /\ poolState = "idle"
    /\ events = <<>>

\* The pool on its own has no catalog, file or clock
ProgramIdle ==
    /\ gamesData = <<>>
    /\ isActions = FALSE
    /\ mainState = "idle"
    /\ clock = 1
    /\ oracleCalls = <<>>
    /\ applied = NoApplied
    /\ scanned = <<>>
    /\ proc = NoEffects

MainIdle ==
    /\ ProgramIdle
    /\ arg = NoCall
    /\ out = NoCall

PoolInit ==
    /\ PoolIdle
    /\ MainIdle
    /\ dataFile = NoFile

CallMapWithConcurrency ==
    /\ poolState = "idle"
    /\ \E its \in PoolInputs, l \in PoolLimits : CallPool(its, l, "pending")
    /\ UNCHANGED mainVars

MapperResolves ==
    \E w \in DOMAIN workers :
        /\ workers[w].pc = "pending"
        /\ WorkerResumes(w, Mapper(items[workers[w].currentIndex + 1]), "pending")
        /\ UNCHANGED <<items, limit, poolState>>
        /\ UNCHANGED mainVars

MapperRejects ==
    \E w \in DOMAIN workers :
        /\ workers[w].pc = "pending"
        /\ WorkerThrows(w)
        /\ UNCHANGED <<items, limit>>
        /\ UNCHANGED mainVars

PoolReturns ==
    /\ poolState = "running"
    /\ PromiseAllFulfilled(workers)
    /\ poolState' = "returned"
    /\ UNCHANGED <<items, limit, results, nextIndex, workers, events>>
    /\ UNCHANGED mainVars

PoolNext ==
    \/ CallMapWithConcurrency
    \/ MapperResolves
    \/ MapperRejects
    \/ PoolReturns

SpecPool == PoolInit /\ [][PoolNext]_vars

\* Every mapper call settles, and a settled promise runs its continuation
FairSpecPool ==
    /\ SpecPool
    /\ WF_vars(MapperResolves \/ MapperRejects)
    /\ WF_vars(PoolReturns)

----------------------------------------------------------------------------
(* Properties of the pool on its own (SpecPool, FairSpecPool) *)

\* The mapper calls started and not yet settled
InFlight == Cardinality({w \in DOMAIN workers : workers[w].pc \in MapperPcs})

AllWorkersFinished == \A w \in DOMAIN workers : workers[w].pc \in {"done", "failed"}

\* The indexes in the order in which their mapper calls settled
SettledAt(i) == {k \in DOMAIN events : events[k] = [e |-> "settle", i |-> i]}

\* C1: when mapWithConcurrency returns, the results array is as long as the
\* items array and slot i holds the mapper's result for item i, whatever the
\* order in which the mapper calls completed.
C1_OrderPreserved ==
    poolState = "returned" =>
        /\ Len(results) = Len(items)
        /\ \A i \in DOMAIN items :
               results[i] = [set |-> TRUE, val |-> Mapper(items[i])]

\* C1 witness: a returned run of three distinct-looking items whose second
\* mapper call settled before the first.
C1_Witness ==
    /\ poolState = "returned"
    /\ items = <<"a", "b", "a">>
    /\ \E k1 \in SettledAt(1), k0 \in SettledAt(0) : k1 < k0

\* C2: at every point the mapper calls in flight number at most
\* min(concurrency, items.length), concurrency being max(1, floor(limit)),
\* for every limit: zero, negative and fractional ones included.
C2_InFlightBounded ==
    InFlight <= Min(Max(1, limit \div 2), Len(items))

\* C2 witness: limit 2.5 over three items with two calls in flight.
C2_Witness ==
    /\ limit = 5
    /\ Len(items) = 3
    /\ InFlight = 2

C5_Sequential ==
    limit < 4 =>
        \A k \in DOMAIN events :
            events[k] = IF k % 2 = 1
                        THEN [e |-> "start", i |-> (k - 1) \div 2]
                        ELSE [e |-> "settle", i |-> (k \div 2) - 1]

\* C5 witness: limit 1.5, three items, all three calls made and settled.
C5_Witness ==
    /\ limit = 3
    /\ Len(items) = 3
    /\ Len(events) = 6
    /\ poolState = "returned"

----------------------------------------------------------------------------
(* JavaScript helpers used by main and getLatestBuild *)

\* An ISO date string, kept as the millisecond instant it spells
Str(ms) == [t |-> "string", v |-> ms]

\* a !== b
StrictNeq(a, b) == a # b

\* if (x), !x: null, undefined, 0 and NaN are falsy; ISO strings are never empty
Truthy(x) ==
    CASE x.t = "number" -> x.v # 0
      [] x.t = "string" -> TRUE
      [] OTHER -> FALSE

\* x === null ? undefined : x
NullToUndefined(x) == IF x = Null THEN Undefined ELSE x

\* x ?? d
Coalesce(x, d) == IF x = Null \/ x = Undefined THEN d ELSE x

\* The instants a Date can hold, scaled down: toISOString() throws a
\* RangeError outside of it
DateRange == 0..2000

\* latestTimeUpdated * 1000: seconds to milliseconds
MsPerSecond == 1000

\* The property key under which gamesData[appId] is looked up
KeyOf(appId) ==
    CASE appId.t = "number" -> ToString(appId.v)
      [] OTHER -> appId.t

\* gamesData[key]?.field
Get(gd, key, field) ==
    IF key \in DOMAIN gd THEN gd[key][field] ELSE Undefined

----------------------------------------------------------------------------
(* SteamCMD output and the extraction of buildid and timeupdated *)

\* The output of one SteamCMD run is kept as the sequence of its quoted
\* key/value pairs; int tells whether the quoted value is made of digits
BuildIdLine(b) == [key |-> "buildid", int |-> TRUE, val |-> b]
TimeUpdatedLine(u) == [key |-> "timeupdated", int |-> TRUE, val |-> u]

\* A key followed by a quoted value that is not an integer ("buildid" "public")
TextLine(key) == [key |-> key, int |-> FALSE, val |-> 0]

\* The outputs main's runs are given: nothing (a timeout), a buildid alone,
\* a buildid with a timestamp (1, 0, and one beyond the Date range), and a
\* timestamp without a buildid
SteamCmdOutputs ==
    { <<>>,
      <<BuildIdLine(10)>>,
      <<BuildIdLine(11)>>,
      <<BuildIdLine(11), TimeUpdatedLine(1)>>,
      <<BuildIdLine(10), TimeUpdatedLine(0)>>,
      <<TimeUpdatedLine(3), BuildIdLine(11)>>,
      <<TimeUpdatedLine(1)>> }

\* content.match(/"<key>"\s+"(\d+)"/): the first match, parseInt of its group
MatchLast(content, key) ==
    LET hits == {i \in DOMAIN content : content[i].key = key /\ content[i].int}
    IN  IF hits = {}
        THEN Null
        ELSE Num(content[CHOOSE i \in hits : \A j \in hits : i >= j].val)
Match(content, key) ==
    LET hits == {i \in DOMAIN content : content[i].key = key /\ content[i].int}
    IN  IF hits = {}
        THEN Null
        ELSE Num(content[CHOOSE i \in hits : \A j \in hits : i <= j].val)

----------------------------------------------------------------------------
(* fetchSteamReviewSummary *)

\* What the appreviews request can come to: a request error or timeout, a
\* non-2xx status, a body that does not parse, or a parsed body
ReviewBodies ==
    { [query_summary |-> TRUE, total_reviews |-> Num(4), total_positive |-> Num(3),
       total_negative |-> Num(1), review_score_desc |-> Str(1)],
      [query_summary |-> TRUE, total_reviews |-> Num(0), total_positive |-> Num(0),
       total_negative |-> Num(0), review_score_desc |-> Str(2)],
      [query_summary |-> TRUE, total_reviews |-> Undefined, total_positive |-> Num(3),
       total_negative |-> Num(1), review_score_desc |-> Str(1)],
      [query_summary |-> FALSE, total_reviews |-> Undefined, total_positive |-> Undefined,
       total_negative |-> Undefined, review_score_desc |-> Undefined] }

ReviewOutcomes ==
    { [kind |-> k, body |-> CHOOSE b \in ReviewBodies : ~b.query_summary] :
          k \in {"error", "status", "unparsable"} }
    \cup { [kind |-> "ok", body |-> b] : b \in ReviewBodies }

\* The outcomes main's runs are given: every failure and a full body
MainReviewOutcomes ==
    {o \in ReviewOutcomes :
        o.kind # "ok" \/ (o.kind = "ok" /\ o.body.total_reviews = Num(4))}

\* typeof qs?.field === 'number' ? qs.field : null (or 'string')
TypedOrNull(body, field, type) ==
    IF body.query_summary /\ body[field].t = type THEN body[field] ELSE Null

FetchSteamReviewSummary(outcome) ==
    IF outcome.kind # "ok"
    THEN AllNullReview
    ELSE LET total == TypedOrNull(outcome.body, "total_reviews", "number")
             positive == TypedOrNull(outcome.body, "total_positive", "number")
             negative == TypedOrNull(outcome.body, "total_negative", "number")
             summary == TypedOrNull(outcome.body, "review_score_desc", "string")
         IN  [ratingPercent |->
                  \* total && positive != null ? (positive / total) * 100 : null
                  IF Truthy(total) /\ positive # Null
                  THEN Num((positive.v * 100) \div total.v)
                  ELSE Null,
              total |-> total, positive |-> positive,
              negative |-> negative, summary |-> summary]

----------------------------------------------------------------------------
(* getLocalBackups, readGamesData, writeGamesData *)

\* A GameData object with only Name, AppID and InstalledBuild set
GameDataStamped(name, appId, installedBuild) ==
    [Name |-> name, AppID |-> appId, InstalledBuild |-> installedBuild,
     LatestBuild |-> Undefined, LatestDate |-> [t |-> "string", v |-> 0],
     SkidrowLink |-> Undefined,
     RatingPercent |-> Undefined, ReviewsTotal |-> Undefined,
     ReviewsPositive |-> Undefined, ReviewsNegative |-> Undefined,
     ReviewSummary |-> Undefined]
GameData(name, appId, installedBuild) ==
    [Name |-> name, AppID |-> appId, InstalledBuild |-> installedBuild,
     LatestBuild |-> Undefined, LatestDate |-> Undefined,
     SkidrowLink |-> Undefined,
     RatingPercent |-> Undefined, ReviewsTotal |-> Undefined,
     ReviewsPositive |-> Undefined, ReviewsNegative |-> Undefined,
     ReviewSummary |-> Undefined]

\* What getLocalBackups returns, one record per .7z file. The directory
\* listings tried: none, one file, a second game, the same game twice, a
\* renamed game and a newer backup of a game
LocalBackups ==
    { <<>>,
      <<GameData("a", Num(1), Num(10))>>,
      <<GameData("a", Num(1), Num(11))>>,
      <<GameData("B", Num(1), Num(10))>>,
      <<GameData("a", Num(1), Num(10)), GameData("B", Num(2), Num(10))>>,
      <<GameData("B", Num(2), Num(10)), GameData("a", Num(1), Num(11))>>,
      <<GameData("a", Num(1), Num(10)), GameData("a", Num(1), Num(11))>> }

\* JSON.stringify then JSON.parse of one value: undefined properties are
\* dropped (and read back as undefined), NaN is written as null
JsonValue(x) == IF x.t = "NaN" THEN Null ELSE x

JsonEntry(entry) ==
    [f \in DOMAIN entry |-> IF f = "Name" THEN entry[f] ELSE JsonValue(entry[f])]

\* readGamesData: JSON.parse throws on a file that is there and malformed
ReadThrows(file) == file.exists /\ ~file.parses

\* readGamesData: an absent file is an empty catalog
ReadGamesData(file) == IF file.exists THEN file.data ELSE <<>>

\* writeGamesData: the file is replaced by the serialized catalog
WriteGamesDataResolved(gd) ==
    [exists |-> TRUE, parses |-> TRUE,
     data |-> [k \in {j \in DOMAIN gd : gd[j].LatestBuild # Undefined} |->
                  JsonEntry(gd[k])]]
WriteGamesData(gd) ==
    [exists |-> TRUE, parses |-> TRUE,
     data |-> [k \in DOMAIN gd |-> JsonEntry(gd[k])]]

\* Object.values(gamesData): integer keys ascending, then the other keys
KeyOrder == <<"1", "2", "NaN">>

\* An item of gamesToCheck. alias names the catalog key whose entry is the
\* very same object as the item ("" when the item is an object of its own)
Item(alias, game) ==
    [alias |-> alias, Name |-> game.Name, AppID |-> game.AppID,
     InstalledBuild |-> game.InstalledBuild]

\* game.field, read through the alias
ItemField(gd, item, field) ==
    IF item.alias # "" THEN gd[item.alias][field] ELSE item[field]

ObjectValues(gd) ==
    LET keys == SelectSeq(KeyOrder, LAMBDA k : k \in DOMAIN gd)
    IN  [i \in DOMAIN keys |-> Item(keys[i], gd[keys[i]])]

----------------------------------------------------------------------------
(* main: the local-mode merge *)

\* One pass of the merge loop of the sequential main, which checks every
\* backup: an entry that is there gets the backup's Name and InstalledBuild
MergeBackupAll(st, backup) ==
    LET key == KeyOf(backup.AppID)
        gd == st.gamesData
    IN  IF key \in DOMAIN gd
        THEN [gamesData |-> [gd EXCEPT ![key].Name = backup.Name,
                                       ![key].InstalledBuild = backup.InstalledBuild],
              changedGames |-> Append(st.changedGames, Item("", backup))]
        ELSE [gamesData |-> (key :> backup) @@ gd,
              changedGames |-> Append(st.changedGames, Item(key, backup))]

\* One pass of: for (const backup of localBackups) { ... }
MergeBackupReplace(st, backup) ==
    [gamesData |-> (KeyOf(backup.AppID) :> backup) @@ st.gamesData,
     changedGames |-> Append(st.changedGames, Item(KeyOf(backup.AppID), backup))]
MergeBackupUnresolve(st, backup) ==
    IF /\ KeyOf(backup.AppID) \in DOMAIN st.gamesData
       /\ ~StrictNeq(st.gamesData[KeyOf(backup.AppID)].InstalledBuild,
                     backup.InstalledBuild)
    THEN [gamesData |-> [st.gamesData EXCEPT
                            ![KeyOf(backup.AppID)].Name = backup.Name,
                            ![KeyOf(backup.AppID)].LatestBuild = Undefined],
          changedGames |-> st.changedGames]
    ELSE MergeBackupAll(st, backup)
MergeBackupNoEntry(st, backup) ==
    IF KeyOf(backup.AppID) \in DOMAIN st.gamesData \/ DOMAIN st.gamesData = {}
    THEN MergeBackupReplace(st, backup)
    ELSE [gamesData |-> st.gamesData,
          changedGames |-> Append(st.changedGames, Item("", backup))]
MergeBackupNameOnly(st, backup) ==
    IF KeyOf(backup.AppID) \in DOMAIN st.gamesData
    THEN [gamesData |-> [st.gamesData EXCEPT ![KeyOf(backup.AppID)].Name = backup.Name],
          changedGames |-> st.changedGames]
    ELSE MergeBackupReplace(st, backup)
MergeBackup(st, backup) ==
    LET key == KeyOf(backup.AppID)
        gd == st.gamesData
    IN  IF key \notin DOMAIN gd
        THEN \* new game: the backup object itself becomes the entry
             [gamesData |-> (key :> backup) @@ gd,
              changedGames |-> Append(st.changedGames, Item(key, backup))]
        ELSE IF StrictNeq(gd[key].InstalledBuild, backup.InstalledBuild)
        THEN [gamesData |-> [gd EXCEPT ![key].Name = backup.Name,
                                       ![key].InstalledBuild = backup.InstalledBuild],
              changedGames |-> Append(st.changedGames, Item("", backup))]
        ELSE [gamesData |-> [gd EXCEPT ![key].Name = backup.Name],
              changedGames |-> st.changedGames]

RECURSIVE MergeBackups(_, _)
MergeBackups(gd, backups) ==
    IF backups = <<>>
    THEN [gamesData |-> gd, changedGames |-> <<>>]
    ELSE MergeBackup(MergeBackups(gd, SubSeq(backups, 1, Len(backups) - 1)),
                     backups[Len(backups)])

\* The catalog after the first n records of a listing have been merged in,
\* by the loop that checks all records or by the one that checks the changed
RECURSIVE MergedUpTo(_, _, _, _)
MergedUpTo(allRecords, gd, backups, n) ==
    IF n = 0
    THEN [gamesData |-> gd, changedGames |-> <<>>]
    ELSE IF allRecords
    THEN MergeBackupAll(MergedUpTo(allRecords, gd, backups, n - 1), backups[n])
    ELSE MergeBackup(MergedUpTo(allRecords, gd, backups, n - 1), backups[n])

----------------------------------------------------------------------------
(* main: MAX_CONCURRENT *)

DefaultConcurrency == 4

NaN == [t |-> "NaN", v |-> 0]

\* process.env.MAX_CONCURRENT: unset, or a string of characters
EnvUnset == [set |-> FALSE, chars |-> <<>>]
EnvString(chars) == [set |-> TRUE, chars |-> chars]

EnvMaxConcurrent == {EnvUnset, EnvString(<<"0">>)}

DigitValue(c) ==
    CASE c = "0" -> 0 [] c = "1" -> 1 [] c = "2" -> 2 [] c = "3" -> 3 [] c = "4" -> 4

Digits == {"0", "1", "2", "3", "4"}

\* parseInt(chars, 10): an optional sign, then the leading digits; NaN if none
RECURSIVE LeadingDigits(_, _)
LeadingDigits(chars, acc) ==
    IF chars = <<>> \/ Head(chars) \notin Digits
    THEN acc
    ELSE LeadingDigits(Tail(chars), Append(acc, Head(chars)))

RECURSIVE DigitsValue(_)
DigitsValue(ds) ==
    IF ds = <<>>
    THEN 0
    ELSE 10 * DigitsValue(SubSeq(ds, 1, Len(ds) - 1)) + DigitValue(ds[Len(ds)])

ParseInt(chars) ==
    LET negative == chars # <<>> /\ Head(chars) = "-"
        rest == IF chars # <<>> /\ Head(chars) \in {"-", "+"} THEN Tail(chars) ELSE chars
        ds == LeadingDigits(rest, <<>>)
    IN  IF ds = <<>>
        THEN NaN
        ELSE Num(IF negative THEN 0 - DigitsValue(ds) ELSE DigitsValue(ds))

\* isFinite(maxConcurrent) ? maxConcurrent : 4, with
\* maxConcurrent = parseInt(process.env.MAX_CONCURRENT ?? '4', 10)
MaxConcurrentOne(env) ==
    LET parsed == IF env.set THEN ParseInt(env.chars) ELSE NaN
    IN  IF parsed.t = "number" THEN parsed.v ELSE 1
MaxConcurrent(env) ==
    LET parsed == IF env.set THEN ParseInt(env.chars) ELSE Num(DefaultConcurrency)
    IN  IF parsed.t = "number" THEN parsed.v ELSE DefaultConcurrency

----------------------------------------------------------------------------
(* main: the mapper handed to mapWithConcurrency, from the return of       *)
(* getLatestBuild to its own return                                        *)

\* The date branch taken: "oracle" (latestTimeUpdated is truthy), "now"
\* (the build changed or there is no previous date) or "keep"
DateBranchNoKeep(latestTimeUpdated, latestBuild, prevBuild, prevDate) ==
    IF Truthy(latestTimeUpdated) THEN "oracle" ELSE "now"
DateBranch(latestTimeUpdated, latestBuild, prevBuild, prevDate) ==
    IF Truthy(latestTimeUpdated) THEN "oracle"
    ELSE IF StrictNeq(latestBuild, prevBuild) \/ ~Truthy(prevDate) THEN "now"
    ELSE "keep"

\* gamesData[game.AppID]: the key of the entry the mapper reads and writes
EntryKeyFirst(gd, item) ==
    IF DOMAIN gd = {} THEN KeyOf(ItemField(gd, item, "AppID")) ELSE KeyOrder[1]
EntryKey(gd, item) == KeyOf(ItemField(gd, item, "AppID"))

\* a > b on numbers: false when either side is NaN
Greater(a, b) == a.t = "number" /\ b.t = "number" /\ a.v > b.v

\* The status of a row
StatusStrict(latestBuild, installedBuild) ==
    IF latestBuild = Null \/ latestBuild = Undefined
       \/ installedBuild = Null \/ installedBuild = Undefined
    THEN "Could not fetch latest"
    ELSE IF Greater(latestBuild, installedBuild)
    THEN "Update available"
    ELSE "Up to date"
Status(latestBuild, installedBuild) ==
    IF latestBuild = Null \/ latestBuild = Undefined
    THEN "Could not fetch latest"
    ELSE IF Greater(latestBuild, Coalesce(installedBuild, Num(0)))
    THEN "Update available"
    ELSE "Up to date"

\* What the mapper does once latestInfo is there. threw: an exception left
\* the mapper (toISOString() on an invalid Date, or a property set on a
\* missing catalog entry) before anything was written
MapperBody(gd, item, latestInfo, now) ==
    LET latestBuild == latestInfo.BuildID
        latestTimeUpdated == latestInfo.TimeUpdated
        key == EntryKey(gd, item)
        prevBuild == Get(gd, key, "LatestBuild")
        prevDate == Get(gd, key, "LatestDate")
        branch == DateBranch(latestTimeUpdated, latestBuild, prevBuild, prevDate)
        invalidDate ==
            branch = "oracle" /\ latestTimeUpdated.v * MsPerSecond \notin DateRange
        latestDate ==
            CASE branch = "oracle" -> Str(latestTimeUpdated.v * MsPerSecond)
              [] branch = "now" -> Str(now)
              [] OTHER -> Coalesce(prevDate, Str(0))
        locals ==
            [done |-> TRUE, threw |-> invalidDate \/ key \notin DOMAIN gd,
             key |-> key, prevBuild |-> prevBuild, prevDate |-> prevDate,
             latestBuild |-> latestBuild, latestTimeUpdated |-> latestTimeUpdated,
             now |-> now,
             status |-> IF invalidDate \/ key \notin DOMAIN gd THEN ""
                        ELSE Status(latestBuild, ItemField(gd, item, "InstalledBuild")),
             review |-> [ratingPercent |-> latestInfo.RatingPercent,
                         total |-> latestInfo.ReviewsTotal,
                         positive |-> latestInfo.ReviewsPositive,
                         negative |-> latestInfo.ReviewsNegative,
                         summary |-> latestInfo.ReviewSummary],
             reviewKind |-> ""]
    IN  IF locals.threw
        THEN [threw |-> TRUE, gamesData |-> gd, row |-> Undefined, locals |-> locals]
        ELSE LET gd2 ==
                     [gd EXCEPT
                        ![key].LatestDate = IF branch = "keep" THEN @ ELSE latestDate,
                        ![key].LatestBuild = NullToUndefined(latestBuild),
                        ![key].RatingPercent = NullToUndefined(latestInfo.RatingPercent),
                        ![key].ReviewsTotal = NullToUndefined(latestInfo.ReviewsTotal),
                        ![key].ReviewsPositive = NullToUndefined(latestInfo.ReviewsPositive),
                        ![key].ReviewsNegative = NullToUndefined(latestInfo.ReviewsNegative),
                        ![key].ReviewSummary = NullToUndefined(latestInfo.ReviewSummary)]
                 installedBuild == ItemField(gd2, item, "InstalledBuild")
             IN  [threw |-> FALSE,
                  gamesData |-> gd2,
                  row |-> [Name |-> ItemField(gd2, item, "Name"),
                           AppID |-> ItemField(gd2, item, "AppID"),
                           InstalledBuild |-> installedBuild,
                           LatestBuild |-> NullToUndefined(latestBuild),
                           LatestDate |-> latestDate,
                           RatingPercent |-> NullToUndefined(latestInfo.RatingPercent),
                           ReviewsTotal |-> NullToUndefined(latestInfo.ReviewsTotal),
                           ReviewsPositive |-> NullToUndefined(latestInfo.ReviewsPositive),
                           ReviewsNegative |-> NullToUndefined(latestInfo.ReviewsNegative),
                           ReviewSummary |-> NullToUndefined(latestInfo.ReviewSummary),
                           Status |-> Status(latestBuild, installedBuild)],
                  locals |-> locals]

\* The catalog with the LatestBuild and LatestDate the item's entry had when
\* the mapper was called, before await getLatestBuild(...)
AtMapperCall(gd, atStart, item) ==
    LET key == EntryKey(gd, item)
    IN  IF key \in DOMAIN gd /\ key \in DOMAIN atStart
        THEN [gd EXCEPT ![key].LatestBuild = atStart[key].LatestBuild,
                        ![key].LatestDate = atStart[key].LatestDate]
        ELSE gd

\* prevBuild and prevDate are read after await getLatestBuild(...), from the
\* catalog as it is when the mapper resumes
ReadBeforeAwait(gd, atCall) == atCall
ReadAfterAwait(gd, atCall) == gd

\* getLatestBuild's return value: the extracted build fields and the review
LatestBuildInfoCoupled(buildId, timeUpdated, review) ==
    [BuildID |-> IF review.summary = Null THEN Null ELSE buildId,
     TimeUpdated |-> IF review.summary = Null THEN Null ELSE timeUpdated,
     RatingPercent |-> review.ratingPercent, ReviewsTotal |-> review.total,
     ReviewsPositive |-> review.positive, ReviewsNegative |-> review.negative,
     ReviewSummary |-> review.summary]
LatestBuildInfo(buildId, timeUpdated, review) ==
    [BuildID |-> buildId, TimeUpdated |-> timeUpdated,
     RatingPercent |-> review.ratingPercent, ReviewsTotal |-> review.total,
     ReviewsPositive |-> review.positive, ReviewsNegative |-> review.negative,
     ReviewSummary |-> review.summary]

\* runSteamCmdAppInfo is invoked once for every mapper call started in the
\* step from ev to ev2
Invoked(oc, ev, ev2) ==
    [i \in DOMAIN oc |->
        IF \E k \in (Len(ev) + 1)..Len(ev2) : ev2[k] = [e |-> "start", i |-> i - 1]
        THEN [oc[i] EXCEPT !.invoked = @ + 1]
        ELSE oc[i]]

\* No invocation yet; found lists the buildid extracted from each output,
\* fetched counts the appreviews requests sent for the item
NotInvoked == [invoked |-> 0, found |-> <<>>, fetched |-> 0]

\* main().catch: the error is logged and the process ends with exit code 1
CatchIgnore(p) == [p EXCEPT !.exitCode = 0]
CatchFatal(p) == [p EXCEPT !.exitCode = 1]

\* games.json once main has rejected before writeGamesData: neither main
\* nor the catch handler writes it, whatever the catalog in memory holds
FileOnRejectSaved(file, gd) == WriteGamesData(gd)
FileOnReject(file, gd) == file

\* The git block runs when GITHUB_TOKEN is set or the run is local; an error
\* of a git command is caught and logged
GitOutcomes(actions, token) ==
    IF token \/ ~actions THEN {"pushed", "failed"} ELSE {"skipped"}

\* getLatestBuild: SteamCMD is run a second time when the first output has
\* no buildid, and never a third time
ShouldRetryAlways(pc, buildId) == buildId = Null
ShouldRetry(pc, buildId) == pc = "oracle1" /\ buildId = Null

----------------------------------------------------------------------------
(* main, run after run *)

\* gamesToCheck: every catalog entry in an Actions run, the new and changed
\* backups in a local run
GamesToCheckChanged(actions, loaded, changedGames) == changedGames
GamesToCheck(actions, loaded, changedGames) ==
    IF actions THEN ObjectValues(loaded) ELSE changedGames

\* main from its first line to "await mapWithConcurrency(...)": the catalog
\* is read, the local backups are merged in (local mode), and the pool is
\* started, every worker running up to its first SteamCMD invocation
StartRunWith(modes, listings, envs) ==
    /\ mainState = "idle"
    /\ ~ReadThrows(dataFile)
    /\ \E actions \in modes, localBackups \in listings, env \in envs :
          LET loaded == ReadGamesData(dataFile)
              merged == MergeBackups(loaded, localBackups)
              gamesToCheck == GamesToCheck(actions, loaded, merged.changedGames)
          IN  /\ actions => localBackups = <<>>
              /\ isActions' = actions
              /\ scanned' = localBackups
              /\ gamesData' = IF actions THEN loaded ELSE merged.gamesData
              /\ CallPool(gamesToCheck, 2 * MaxConcurrent(env), "oracle1")
              /\ oracleCalls' = Invoked([i \in DOMAIN gamesToCheck |-> NotInvoked],
                                         <<>>, events')
    /\ mainState' = "resolving"
    /\ applied' = NoApplied
    /\ proc' = NoEffects
    /\ UNCHANGED <<dataFile, clock, arg, out>>

StartRun == StartRunWith(BOOLEAN, LocalBackups, EnvMaxConcurrent)

\* main ends in readGamesData: games.json is there and JSON.parse throws, so
\* main rejects before anything else is done and the catch handler ends the
\* process
ReadFails ==
    /\ mainState = "idle"
    /\ ReadThrows(dataFile)
    /\ mainState' = "fatal"
    /\ proc' = CatchFatal(NoEffects)
    /\ dataFile' = FileOnReject(dataFile, gamesData)
    /\ UNCHANGED <<items, limit, results, nextIndex, workers, poolState, events,
                   gamesData, isActions, clock, oracleCalls, applied,
                   scanned, arg, out>>

\* getLatestBuild: a SteamCMD run has ended and its output is searched. No
\* buildid in the first output: SteamCMD is run once more; otherwise, and
\* after the retry, the appreviews request is sent
OracleReturnsWith(outputs) ==
    /\ mainState = "resolving"
    /\ \E w \in DOMAIN workers, content \in outputs :
          LET buildId == Match(content, "buildid")
              retry == ShouldRetry(workers[w].pc, buildId)
          IN  /\ workers[w].pc \in {"oracle1", "oracle2"}
              /\ workers' = [workers EXCEPT ![w] =
                    IF retry
                    THEN [@ EXCEPT !.pc = "oracle2"]
                    ELSE [@ EXCEPT !.pc = "review", !.buildId = buildId,
                                   !.timeUpdated = Match(content, "timeupdated")]]
              /\ oracleCalls' = [oracleCalls EXCEPT ![workers[w].currentIndex + 1] =
                                    [invoked |-> IF retry THEN @.invoked + 1 ELSE @.invoked,
                                     found |-> Append(@.found, buildId),
                                     fetched |-> IF retry THEN @.fetched ELSE @.fetched + 1]]
    /\ UNCHANGED <<items, limit, results, nextIndex, poolState, events,
                   dataFile, gamesData, isActions, mainState, clock, applied,
                   scanned, proc, arg, out>>

OracleReturns == OracleReturnsWith(SteamCmdOutputs)

\* The appreviews request has settled: getLatestBuild returns, the mapper
\* updates the catalog and returns its row, and the worker stores the row and
\* claims the next index. An exception leaving the mapper rejects the pool and
\* main, whose catch handler ends the process with exit code 1
ReviewReturnsWith(outcomes) ==
    /\ mainState = "resolving"
    /\ \E w \in DOMAIN workers, outcome \in outcomes, now \in clock..MaxClock :
          LET item == items[workers[w].currentIndex + 1]
              latestInfo == LatestBuildInfo(workers[w].buildId, workers[w].timeUpdated,
                                            FetchSteamReviewSummary(outcome))
              atStart == IF isActions THEN ReadGamesData(dataFile)
                         ELSE MergeBackups(ReadGamesData(dataFile), scanned).gamesData
              r == MapperBody(ReadAfterAwait(gamesData,
                                             AtMapperCall(gamesData, atStart, item)),
                              item, latestInfo, now)
          IN  /\ workers[w].pc = "review"
              /\ clock' = now
              /\ applied' = [r.locals EXCEPT !.reviewKind = outcome.kind]
              /\ IF r.threw
                 THEN /\ WorkerThrows(w)
                      /\ mainState' = "aborted"
                      /\ proc' = CatchFatal(proc)
                      /\ dataFile' = FileOnReject(dataFile, gamesData)
                      /\ UNCHANGED <<gamesData, oracleCalls>>
                 ELSE /\ WorkerResumes(w, r.row, "oracle1")
                      /\ gamesData' = r.gamesData
                      /\ oracleCalls' = Invoked(oracleCalls, events, events')
                      /\ UNCHANGED <<mainState, poolState, proc, dataFile>>
    /\ UNCHANGED <<items, limit, isActions, scanned, arg, out>>

ReviewReturns == ReviewReturnsWith(MainReviewOutcomes)

\* Promise.all is fulfilled, mapWithConcurrency returns the rows, and main
\* runs to its end: games.json is written, the report is generated, the git
\* commands are run (or not) and "finished" is logged
FinishRun ==
    /\ mainState = "resolving"
    /\ poolState = "running"
    /\ PromiseAllFulfilled(workers)
    /\ poolState' = "returned"
    /\ dataFile' = WriteGamesData(gamesData)
    /\ mainState' = "finished"
    /\ \E token \in BOOLEAN : \E git \in GitOutcomes(isActions, token) :
          proc' = [report |-> TRUE, git |-> git, finished |-> TRUE, exitCode |-> 0]
    /\ UNCHANGED <<items, limit, results, nextIndex, workers, events,
                   gamesData, isActions, clock, oracleCalls, applied,
                   scanned, arg, out>>

\* As FinishRun, but fs.writeFileSync throws in writeGamesData (the file is
\* left as it was, or cut short): main rejects there and the catch handler
\* ends the process
WriteFails ==
    /\ mainState = "resolving"
    /\ poolState = "running"
    /\ PromiseAllFulfilled(workers)
    /\ poolState' = "returned"
    /\ dataFile' \in {dataFile, Malformed}
    /\ mainState' = "fatal"
    /\ proc' = CatchFatal(proc)
    /\ UNCHANGED <<items, limit, results, nextIndex, workers, events,
                   gamesData, isActions, clock, oracleCalls, applied,
                   scanned, arg, out>>

Next ==
    \/ StartRun
    \/ ReadFails
    \/ OracleReturns
    \/ ReviewReturns
    \/ FinishRun
    \/ WriteFails

\* A catalog left by an earlier local run over the given backups, in which
\* every game resolved to the same latestInfo at instant 0
RECURSIVE ResolveAll(_, _, _)
ResolveAll(gd, games, latestInfo) ==
    IF games = <<>>
    THEN gd
    ELSE ResolveAll(MapperBody(gd, Head(games), latestInfo, 0).gamesData,
                    Tail(games), latestInfo)

\* The sequential main stores the first link getSkidrowLinks returns
SkidrowUrl == [t |-> "string", v |-> 7]
LinkFound(gd, key) == [gd EXCEPT ![key].SkidrowLink = SkidrowUrl]

\* A lone resolved game also got a link, from a run of the sequential main
EarlierRun(localBackups, latestInfo) ==
    LET merged == MergeBackups(<<>>, localBackups)
        resolved == ResolveAll(merged.gamesData, merged.changedGames, latestInfo)
    IN  WriteGamesData(IF Len(localBackups) = 1 /\ latestInfo.BuildID # Null
                       THEN LinkFound(resolved, KeyOf(localBackups[1].AppID))
                       ELSE resolved)

\* games.json as main finds it: absent, malformed (a write that broke off, a
\* hand edit), or written by an earlier run in which the games could not be
\* resolved, or resolved to build 10
InitialFiles ==
    {NoFile, Malformed}
    \cup { EarlierRun(b, LatestBuildInfo(v, Null, AllNullReview)) :
              b \in { <<GameData("a", Num(1), Num(10))>>,
                      <<GameData("a", Num(1), Num(10)), GameData("B", Num(2), Num(10))>> },
              v \in {Null, Num(10)} }

Init ==
    /\ PoolIdle
    /\ MainIdle
    /\ dataFile \in InitialFiles

Spec == Init /\ [][Next]_vars

----------------------------------------------------------------------------
(* Run after run over one game whose build stays 10 *)

\* One game (AppID 1 stands for 100) with the backup of build 10 in the
\* backup directory; an Actions run scans nothing
SteadyListings == {<<>>, <<GameData("a", Num(1), Num(10))>>}

\* SteamCMD prints build 10 and no timeupdated, every time
SteadyOutputs == {<<BuildIdLine(10)>>}

RunsInit ==
    /\ PoolIdle
    /\ MainIdle
    /\ dataFile = NoFile

RunsStart == StartRunWith(BOOLEAN, SteadyListings, EnvMaxConcurrent)

RunsOracle == OracleReturnsWith(SteadyOutputs)

RunsReview == ReviewReturnsWith(MainReviewOutcomes)

\* The process has ended; later main is started again, in a new process that
\* has games.json and the wall clock, which may have advanced, and nothing else
RunAgain ==
    /\ mainState = "finished"
    /\ mainState' = "idle"
    /\ clock' \in clock..MaxClock
    /\ items' = <<>>
    /\ limit' = 0
    /\ results' = <<>>
    /\ nextIndex' = 0
    /\ workers' = <<>>
    /\ poolState' = "idle"
    /\ events' = <<>>
    /\ gamesData' = <<>>
    /\ isActions' = FALSE
    /\ oracleCalls' = <<>>
    /\ applied' = NoApplied
    /\ scanned' = <<>>
    /\ proc' = NoEffects
    /\ UNCHANGED <<dataFile, arg, out>>

RunsNext ==
    \/ RunsStart
    \/ RunsOracle
    \/ RunsReview
    \/ FinishRun
    \/ RunAgain

SpecRuns == RunsInit /\ [][RunsNext]_vars

\* Run after run over a directory in which a file name may have no number
\* where the AppID is expected (a_x_10.7z): parseInt gives NaN, the entry is
\* stored under the key "NaN" and written with AppID null
KeysNext ==
    \/ StartRunWith(BOOLEAN,
                    { <<>>,
                      <<GameData("a", NaN, Num(10))>>,
                      <<GameData("a", Num(1), Num(10)), GameData("B", NaN, Num(10))>> },
                    EnvMaxConcurrent)
    \/ RunsOracle
    \/ RunsReview
    \/ FinishRun
    \/ RunAgain

SpecKeys == RunsInit /\ [][KeysNext]_vars

----------------------------------------------------------------------------
(* steam-backup-report.ts: the single-file program, which resolves the     *)
(* games one after the other                                               *)

\* Its readGamesData: an absent file and a file JSON.parse rejects are both
\* an empty catalog (the catch block returns {})
ReportReadGamesData(file) ==
    IF file.exists /\ file.parses THEN file.data ELSE <<>>

\* Its writeGamesData writes Object.values(data) as an array, which its
\* readGamesData turns back into a map keyed by the AppID of each element,
\* a later element replacing an earlier one with the same AppID
ReportWriteGamesData(gd) ==
    LET keys == SelectSeq(KeyOrder, LAMBDA k : k \in DOMAIN gd)
        written == [i \in DOMAIN keys |-> JsonEntry(gd[keys[i]])]
        ids == {KeyOf(written[i].AppID) : i \in DOMAIN written}
        lastOf(id) == CHOOSE i \in DOMAIN written :
                          /\ KeyOf(written[i].AppID) = id
                          /\ \A j \in DOMAIN written :
                                KeyOf(written[j].AppID) = id => j <= i
    IN  [exists |-> TRUE, parses |-> TRUE,
         data |-> [id \in ids |-> written[lastOf(id)]]]

\* What getSkidrowLinks can come to: a link, no link, or an error
LinkOutcomes == {"found", "none", "error"}

\* One pass of the loop over gamesToCheck: getLatestBuild (a single SteamCMD
\* run, undefined for what is not found), the date and LatestBuild of the
\* entry, the link, the status and the row
ReportBody(gd, item, content, now, link) ==
    LET latestBuild == NullToUndefined(Match(content, "buildid"))
        latestTimeUpdated == NullToUndefined(Match(content, "timeupdated"))
        key == EntryKey(gd, item)
        prevBuild == Get(gd, key, "LatestBuild")
        prevDate == Get(gd, key, "LatestDate")
        branch == DateBranch(latestTimeUpdated, latestBuild, prevBuild, prevDate)
        threw == \/ key \notin DOMAIN gd
                 \/ branch = "oracle" /\ latestTimeUpdated.v * MsPerSecond \notin DateRange
        latestDate ==
            CASE branch = "oracle" -> Str(latestTimeUpdated.v * MsPerSecond)
              [] branch = "now" -> Str(now)
              [] OTHER -> Coalesce(prevDate, Str(0))
        locals ==
            [done |-> TRUE, threw |-> threw,
             key |-> key, prevBuild |-> prevBuild, prevDate |-> prevDate,
             latestBuild |-> latestBuild, latestTimeUpdated |-> latestTimeUpdated,
             now |-> now,
             status |-> IF threw THEN ""
                        ELSE Status(latestBuild, ItemField(gd, item, "InstalledBuild")),
             review |-> AllNullReview, reviewKind |-> ""]
    IN  IF threw
        THEN [threw |-> TRUE, gamesData |-> gd, row |-> Undefined, locals |-> locals]
        ELSE LET gd2 ==
                     [gd EXCEPT
                        ![key].LatestDate = IF branch = "keep" THEN @ ELSE latestDate,
                        ![key].LatestBuild = latestBuild,
                        ![key].SkidrowLink = IF link = "found" THEN SkidrowUrl ELSE @]
             IN  [threw |-> FALSE,
                  gamesData |-> gd2,
                  row |-> [Name |-> ItemField(gd2, item, "Name"),
                           AppID |-> ItemField(gd2, item, "AppID"),
                           InstalledBuild |-> ItemField(gd2, item, "InstalledBuild"),
                           LatestBuild |-> latestBuild,
                           LatestDate |-> latestDate,
                           Status |-> locals.status,
                           SkidrowLink |-> IF Truthy(gd2[key].SkidrowLink)
                                           THEN gd2[key].SkidrowLink
                                           ELSE Str(0)],
                  locals |-> locals]

\* games.json as this program finds it: absent, malformed, or a catalog with
\* game 1 resolved to build 10
ReportFiles ==
    {NoFile, Malformed,
     EarlierRun(<<GameData("a", Num(1), Num(10))>>,
                LatestBuildInfo(Num(10), Null, AllNullReview))}

ReportInit ==
    /\ PoolIdle
    /\ MainIdle
    /\ dataFile \in ReportFiles

\* main up to the loop: the catalog is read; a local run merges every backup
\* in and writes games.json at once
ReportStart ==
    /\ mainState = "idle"
    /\ \E actions \in BOOLEAN, localBackups \in LocalBackups :
          LET loaded == ReportReadGamesData(dataFile)
              merged == MergedUpTo(TRUE, loaded, localBackups, Len(localBackups))
          IN  /\ actions => localBackups = <<>>
              /\ isActions' = actions
              /\ scanned' = localBackups
              /\ gamesData' = IF actions THEN loaded ELSE merged.gamesData
              /\ items' = IF actions THEN ObjectValues(loaded) ELSE merged.changedGames
              /\ dataFile' = IF actions THEN dataFile
                                        ELSE ReportWriteGamesData(merged.gamesData)
    /\ mainState' = "resolving"
    /\ results' = <<>>
    /\ nextIndex' = 0
    /\ UNCHANGED <<limit, workers, poolState, events, clock, oracleCalls,
                   applied, proc, arg, out>>

\* One game of the loop, from getLatestBuild to results.push; an exception
\* (toISOString() on an invalid Date) leaves main, and the rejection, which
\* nothing handles, ends the process with exit code 1
ReportResolves ==
    /\ mainState = "resolving"
    /\ nextIndex < Len(items)
    /\ \E content \in SteamCmdOutputs, link \in LinkOutcomes, now \in clock..MaxClock :
          LET r == ReportBody(gamesData, items[nextIndex + 1], content, now, link)
          IN  /\ clock' = now
              /\ applied' = r.locals
              /\ IF r.threw
                 THEN /\ mainState' = "aborted"
                      /\ proc' = [proc EXCEPT !.exitCode = 1]
                      /\ UNCHANGED <<gamesData, results, nextIndex>>
                 ELSE /\ gamesData' = r.gamesData
                      /\ results' = Append(results, [set |-> TRUE, val |-> r.row])
                      /\ nextIndex' = nextIndex + 1
                      /\ UNCHANGED <<mainState, proc>>
    /\ UNCHANGED <<items, limit, workers, poolState, events, dataFile, isActions,
                   oracleCalls, scanned, arg, out>>

\* After the loop: games.json is written, the report is generated and the git
\* commands are run (or not)
ReportFinish ==
    /\ mainState = "resolving"
    /\ nextIndex = Len(items)
    /\ dataFile' = ReportWriteGamesData(gamesData)
    /\ mainState' = "finished"
    /\ \E token \in BOOLEAN : \E git \in GitOutcomes(isActions, token) :
          proc' = [report |-> TRUE, git |-> git, finished |-> FALSE, exitCode |-> 0]
    /\ UNCHANGED <<items, limit, results, nextIndex, workers, poolState, events,
                   gamesData, isActions, clock, oracleCalls, applied,
                   scanned, arg, out>>

ReportNext ==
    \/ ReportStart
    \/ ReportResolves
    \/ ReportFinish

SpecReport == ReportInit /\ [][ReportNext]_vars

----------------------------------------------------------------------------
(* index.ts, sequential variant: the games are resolved one after the     *)
(* other and each gets a SkidrowReloaded link, run after run              *)

\* A second link of the feed
SkidrowUrl2 == [t |-> "string", v |-> 8]

\* getSkidrowLinks catches every error and returns []
GetSkidrowLinks(feed) == IF feed.error THEN <<>> ELSE feed.links

\* if (links.length > 0) gamesData[id].SkidrowLink = links[0]; nothing is
\* assigned otherwise
StoredLinkCleared(links, stored) ==
    IF Len(links) > 0 THEN links[1] ELSE Undefined
StoredLink(links, stored) ==
    IF Len(links) > 0 THEN links[1] ELSE stored

\* One pass of the loop over gamesToCheck: the date and LatestBuild of the
\* entry, the link, the status and the row
SeqBody(gd, item, latestInfo, now, links) ==
    LET latestBuild == latestInfo.BuildID
        latestTimeUpdated == latestInfo.TimeUpdated
        key == EntryKey(gd, item)
        prevBuild == Get(gd, key, "LatestBuild")
        prevDate == Get(gd, key, "LatestDate")
        branch == DateBranch(latestTimeUpdated, latestBuild, prevBuild, prevDate)
        threw == \/ key \notin DOMAIN gd
                 \/ branch = "oracle" /\ latestTimeUpdated.v * MsPerSecond \notin DateRange
        latestDate ==
            CASE branch = "oracle" -> Str(latestTimeUpdated.v * MsPerSecond)
              [] branch = "now" -> Str(now)
              [] OTHER -> Coalesce(prevDate, Str(0))
        locals ==
            [done |-> TRUE, threw |-> threw,
             key |-> key, prevBuild |-> prevBuild, prevDate |-> prevDate,
             latestBuild |-> latestBuild, latestTimeUpdated |-> latestTimeUpdated,
             now |-> now,
             status |-> IF threw THEN ""
                        ELSE Status(latestBuild, ItemField(gd, item, "InstalledBuild")),
             review |-> AllNullReview, reviewKind |-> ""]
    IN  IF threw
        THEN [threw |-> TRUE, gamesData |-> gd, row |-> Undefined, locals |-> locals]
        ELSE LET gd2 ==
                     [gd EXCEPT
                        ![key].LatestDate = IF branch = "keep" THEN @ ELSE latestDate,
                        ![key].LatestBuild = NullToUndefined(latestBuild),
                        ![key].SkidrowLink = StoredLink(links, @)]
             IN  [threw |-> FALSE,
                  gamesData |-> gd2,
                  row |-> [Name |-> ItemField(gd2, item, "Name"),
                           AppID |-> ItemField(gd2, item, "AppID"),
                           InstalledBuild |-> ItemField(gd2, item, "InstalledBuild"),
                           LatestBuild |-> NullToUndefined(latestBuild),
                           LatestDate |-> latestDate,
                           Status |-> locals.status,
                           \* let skidrowLink = ''
                           SkidrowLink |-> IF Truthy(gd2[key].SkidrowLink)
                                           THEN gd2[key].SkidrowLink
                                           ELSE Str(0)],
                  locals |-> locals]

SeqInit ==
    /\ PoolIdle
    /\ MainIdle
    /\ dataFile = NoFile

\* main up to the loop: the catalog is read; a local run merges every backup
\* in and checks every backup, an Actions run checks every catalog entry.
\* The backup directory of these runs is empty or holds one game or two
SeqStart ==
    /\ mainState = "idle"
    /\ ~ReadThrows(dataFile)
    /\ \E actions \in BOOLEAN,
          localBackups \in {<<>>, <<GameData("a", Num(1), Num(10))>>,
                            <<GameData("a", Num(1), Num(10)),
                              GameData("B", Num(2), Num(10))>>} :
          LET loaded == ReadGamesData(dataFile)
              merged == MergedUpTo(TRUE, loaded, localBackups, Len(localBackups))
          IN  /\ actions => localBackups = <<>>
              /\ isActions' = actions
              /\ scanned' = localBackups
              /\ gamesData' = IF actions THEN loaded ELSE merged.gamesData
              /\ items' = IF actions THEN ObjectValues(loaded) ELSE merged.changedGames
    /\ mainState' = "resolving"
    /\ results' = <<>>
    /\ nextIndex' = 0
    /\ out' = NoCall
    /\ UNCHANGED <<limit, workers, poolState, events, dataFile, clock,
                   oracleCalls, applied, proc, arg>>

\* One game of the loop, from getLatestBuild to results.push. SteamCMD
\* prints build 10 or nothing of use; the feed request fails (parseURL
\* rejects) or gives the matching links in feed order
SeqResolves ==
    /\ mainState = "resolving"
    /\ nextIndex < Len(items)
    /\ \E content \in {<<BuildIdLine(10)>>, <<>>},
          feed \in {[error |-> TRUE, links |-> <<>>],
                    [error |-> FALSE, links |-> <<>>],
                    [error |-> FALSE, links |-> <<SkidrowUrl>>],
                    [error |-> FALSE, links |-> <<SkidrowUrl2, SkidrowUrl>>]},
          now \in clock..MaxClock :
          LET latestInfo == [BuildID |-> Match(content, "buildid"),
                             TimeUpdated |-> Match(content, "timeupdated")]
              links == GetSkidrowLinks(feed)
              r == SeqBody(gamesData, items[nextIndex + 1], latestInfo, now, links)
          IN  /\ clock' = now
              /\ applied' = r.locals
              /\ out' = [f |-> "links", val |-> links]
              /\ IF r.threw
                 THEN /\ mainState' = "aborted"
                      /\ proc' = CatchFatal(proc)
                      /\ UNCHANGED <<gamesData, results, nextIndex>>
                 ELSE /\ gamesData' = r.gamesData
                      /\ results' = Append(results, [set |-> TRUE, val |-> r.row])
                      /\ nextIndex' = nextIndex + 1
                      /\ UNCHANGED <<mainState, proc>>
    /\ UNCHANGED <<items, limit, workers, poolState, events, dataFile, isActions,
                   oracleCalls, scanned, arg>>

\* After the loop: games.json is written, the report is generated, the git
\* commands are run (or not) and "finished" is logged
SeqFinish ==
    /\ mainState = "resolving"
    /\ nextIndex = Len(items)
    /\ dataFile' = WriteGamesData(gamesData)
    /\ mainState' = "finished"
    /\ \E token \in BOOLEAN : \E git \in GitOutcomes(isActions, token) :
          proc' = [report |-> TRUE, git |-> git, finished |-> TRUE, exitCode |-> 0]
    /\ UNCHANGED <<items, limit, results, nextIndex, workers, poolState, events,
                   gamesData, isActions, clock, oracleCalls, applied,
                   scanned, arg, out>>

SeqNext ==
    \/ SeqStart
    \/ SeqResolves
    \/ SeqFinish
    \/ RunAgain

SpecSeq == SeqInit /\ [][SeqNext]_vars

----------------------------------------------------------------------------
(* The status rules on their own *)

\* The values latestBuild and game.InstalledBuild can have: a build number,
\* null or undefined for latestBuild; a build number, NaN (a backup name
\* without a number), null (NaN read back from games.json) or undefined for
\* InstalledBuild
LatestBuilds == {Null, Undefined} \cup {Num(n) : n \in 0..MaxBuild}
InstalledBuilds == {Null, Undefined, NaN} \cup {Num(n) : n \in 0..MaxBuild}

StatusInit ==
    /\ PoolIdle
    /\ ProgramIdle
    /\ dataFile = NoFile
    /\ arg \in {[f |-> "status", latestBuild |-> l, installedBuild |-> i] :
                   l \in LatestBuilds, i \in InstalledBuilds}
    /\ out = NoCall

\* The status block of the mapper runs on the two values
ClassifyStatus ==
    /\ arg.f = "status"
    /\ out = NoCall
    /\ out' = [f |-> "status", val |-> Status(arg.latestBuild, arg.installedBuild)]
    /\ UNCHANGED <<items, limit, results, nextIndex, workers, poolState, events,
                   dataFile, gamesData, isActions, mainState, clock,
                   oracleCalls, applied, scanned, proc, arg>>

SpecStatus == StatusInit /\ [][ClassifyStatus]_vars

----------------------------------------------------------------------------
(* fetchSteamReviewSummary on its own *)

\* The bodies JSON.parse accepts: without query_summary, or with one whose
\* four properties are each missing, null, a number (0 included) or a string
ReviewShapes ==
    LET values == {Undefined, Null, Num(0), Num(4), Str(1)}
    IN  {b \in ReviewBodies : ~b.query_summary}
        \cup {[query_summary |-> TRUE, total_reviews |-> a, total_positive |-> b,
               total_negative |-> c, review_score_desc |-> d] :
                  a \in values, b \in values, c \in values, d \in values}

ReviewInit ==
    /\ PoolIdle
    /\ ProgramIdle
    /\ dataFile = NoFile
    /\ arg \in {[f |-> "review", outcome |-> o] :
                   o \in {x \in ReviewOutcomes : x.kind # "ok"}
                         \cup {[kind |-> "ok", body |-> b] : b \in ReviewShapes}}
    /\ out = NoCall

\* The request settles and the promise of fetchSteamReviewSummary resolves
FetchReview ==
    /\ arg.f = "review"
    /\ out = NoCall
    /\ out' = [f |-> "review", val |-> FetchSteamReviewSummary(arg.outcome)]
    /\ UNCHANGED <<items, limit, results, nextIndex, workers, poolState, events,
                   dataFile, gamesData, isActions, mainState, clock,
                   oracleCalls, applied, scanned, proc, arg>>

SpecReview == ReviewInit /\ [][FetchReview]_vars

----------------------------------------------------------------------------
(* The extraction of buildid and timeupdated on its own *)

\* The longest text, in key/value pairs
MaxText == 3

\* A text is made of buildids, timestamps, a key whose value is not an
\* integer, and a pair with another key
ExtractInit ==
    /\ PoolIdle
    /\ ProgramIdle
    /\ dataFile = NoFile
    /\ arg \in {[f |-> "extract", content |-> c] :
                   c \in SeqsUpTo({BuildIdLine(10), BuildIdLine(11),
                                   TimeUpdatedLine(1), TimeUpdatedLine(2),
                                   TextLine("buildid"), TextLine("timeupdated"),
                                   TextLine("other")}, MaxText)}
    /\ out = NoCall

\* getLatestBuild from "Parse buildid" to "Parse timeupdated" over one text
Extract ==
    /\ arg.f = "extract"
    /\ out = NoCall
    /\ out' = [f |-> "extract", threw |-> FALSE,
               buildid |-> Match(arg.content, "buildid"),
               timeupdated |-> Match(arg.content, "timeupdated")]
    /\ UNCHANGED <<items, limit, results, nextIndex, workers, poolState, events,
                   dataFile, gamesData, isActions, mainState, clock,
                   oracleCalls, applied, scanned, proc, arg>>

SpecExtract == ExtractInit /\ [][Extract]_vars

----------------------------------------------------------------------------
(* The SteamCMD clients on their own *)

\* The text the client hands to the extraction. The clients of the
\* repository: runSteamCmdAppInfo (execFile, async), the getLatestBuild that
\* pipes the output (execSync with stdio pipe), the one that lets the shell
\* redirect it to a file, and the one of steam-backup-report.ts
ClientText(client, run) ==
    CASE client = "execFile" ->
            \* `${stdout}\n${stderr}` of the result, or of the error
            run.stdout
      [] client = "pipe" ->
            \* the return value of execSync is dropped; the temp file is
            \* written in the catch block only, from error.stdout
            IF run.status = "zero" THEN <<>> ELSE run.stdout
      [] client = "redirect" ->
            \* the shell writes the temp file; the error of execSync is
            \* logged, and the file is read if it exists
            run.stdout
      [] OTHER ->
            \* execSync throws on a non-zero status and the catch block
            \* returns without reading the temp file
            IF run.status = "zero" THEN run.stdout ELSE <<>>

\* A SteamCMD run ends with exit status 0, with a non-zero exit status, or
\* there is no process at all (the executable cannot be started: no output)
OracleInit ==
    /\ PoolIdle
    /\ ProgramIdle
    /\ dataFile = NoFile
    /\ arg \in {[f |-> "oracle", client |-> c, run |-> r] :
                   c \in {"execFile", "pipe", "redirect", "report"},
                   r \in {[status |-> st, stdout |-> o] :
                             st \in {"zero", "nonzero"}, o \in SteamCmdOutputs}
                         \cup {[status |-> "nospawn", stdout |-> <<>>]}}
    /\ out = NoCall

\* One SteamCMD run of one client, up to the extraction of the buildid:
\* null when nothing is found, undefined in steam-backup-report.ts
RunClient ==
    /\ arg.f = "oracle"
    /\ out = NoCall
    /\ LET text == ClientText(arg.client, arg.run)
           buildId == Match(text, "buildid")
       IN  out' = [f |-> "oracle", text |-> text,
                   BuildID |-> IF arg.client = "report"
                               THEN NullToUndefined(buildId) ELSE buildId]
    /\ UNCHANGED <<items, limit, results, nextIndex, workers, poolState, events,
                   dataFile, gamesData, isActions, mainState, clock,
                   oracleCalls, applied, scanned, proc, arg>>

SpecOracle == OracleInit /\ [][RunClient]_vars

----------------------------------------------------------------------------
(* generateHtmlReport: the order of the rows *)

\* The display names of the rows are two letters, each in lower and upper
\* case. The letter of a name whatever its case
LetterOf(name) == IF name \in {"a", "A"} THEN 1 ELSE 2

\* The place of a name in the collation localeCompare is built on: ICU in
\* Node's standard build (the letters decide, and with equal letters the
\* lower case comes first), the UTF-16 code units in a build without Intl
CollationRank(name, collation) ==
    IF collation = "codeunit"
    THEN CASE name = "A" -> 1 [] name = "B" -> 2 [] name = "a" -> 3 [] OTHER -> 4
    ELSE CASE name = "a" -> 1 [] name = "A" -> 2 [] name = "b" -> 3 [] OTHER -> 4

\* a.localeCompare(b) with no locale and no options
LocaleCompare(a, b, collation) ==
    IF CollationRank(a, collation) < CollationRank(b, collation) THEN 0 - 1
    ELSE IF CollationRank(a, collation) > CollationRank(b, collation) THEN 1
    ELSE 0

\* Array.prototype.sort is stable: a row goes behind every row that does not
\* compare greater
InsertRow(sorted, row, collation) ==
    LET greater == {k \in DOMAIN sorted :
                       LocaleCompare(sorted[k].Name, row.Name, collation) > 0}
        at == IF greater = {} THEN Len(sorted) + 1
              ELSE CHOOSE k \in greater : \A j \in greater : k <= j
    IN  SubSeq(sorted, 1, at - 1) \o <<row>> \o SubSeq(sorted, at, Len(sorted))

\* [...results].sort((a, b) => a.Name.localeCompare(b.Name))
RECURSIVE SortByName(_, _)
SortByName(rows, collation) ==
    IF rows = <<>>
    THEN <<>>
    ELSE InsertRow(SortByName(SubSeq(rows, 1, Len(rows) - 1), collation),
                   rows[Len(rows)], collation)

\* results as main hands them over: one row per item, in item order
SortInit ==
    /\ PoolIdle
    /\ ProgramIdle
    /\ dataFile = NoFile
    /\ arg \in {[f |-> "report", collation |-> c,
                  results |-> [i \in DOMAIN names |-> [Name |-> names[i], index |-> i]]] :
                   names \in SeqsUpTo({"a", "A", "b", "B"}, MaxItems),
                   c \in {"icu", "codeunit"}}
    /\ out = NoCall

\* generateHtmlReport up to sortedResults
GenerateHtmlReport ==
    /\ arg.f = "report"
    /\ out = NoCall
    /\ out' = [f |-> "report",
               sortedResults |-> SortByName(arg.results, arg.collation)]
    /\ UNCHANGED <<items, limit, results, nextIndex, workers, poolState, events,
                   dataFile, gamesData, isActions, mainState, clock,
                   oracleCalls, applied, scanned, proc, arg>>

SpecSort == SortInit /\ [][GenerateHtmlReport]_vars

----------------------------------------------------------------------------
(* getLocalBackups: from a file name to a record *)

\* A file name is a sequence of characters; ".7z" stands for these three
\* characters in a row
FileChars == {"a", "_", "1", "2", ".7z"}

\* The longest game name and the longest other file name, in characters
MaxName == 2
MaxFile == 4

\* file.endsWith('.7z')
EndsWith7z(file) == file # <<>> /\ file[Len(file)] = ".7z"

\* file.replace('.7z', ''): the first occurrence is removed
ReplaceFirst7z(file) ==
    LET hits == {i \in DOMAIN file : file[i] = ".7z"}
        first == CHOOSE i \in hits : \A j \in hits : i <= j
    IN  IF hits = {} THEN file
        ELSE SubSeq(file, 1, first - 1) \o SubSeq(file, first + 1, Len(file))

\* path.basename(file, '.7z'): the suffix is cut off, unless it is the whole name
Basename7z(file) ==
    IF Len(file) > 1 /\ EndsWith7z(file) THEN SubSeq(file, 1, Len(file) - 1) ELSE file

\* baseName.split('_')
RECURSIVE Split(_)
Split(chars) ==
    LET seps == {i \in DOMAIN chars : chars[i] = "_"}
        last == CHOOSE i \in seps : \A j \in seps : i >= j
    IN  IF seps = {} THEN <<chars>>
        ELSE Append(Split(SubSeq(chars, 1, last - 1)),
                    SubSeq(chars, last + 1, Len(chars)))

\* parts.join('_')
RECURSIVE Join(_)
Join(parts) ==
    IF Len(parts) = 0 THEN <<>>
    ELSE IF Len(parts) = 1 THEN parts[1]
    ELSE Join(SubSeq(parts, 1, Len(parts) - 1)) \o <<"_">> \o parts[Len(parts)]

\* The records one file of the directory adds to backups, in the
\* getLocalBackups of fileUtils and in that of steam-backup-report.ts
ScanFile(scanner, file) ==
    IF ~EndsWith7z(file)
    THEN <<>>
    ELSE LET baseName == IF scanner = "fileUtils" THEN ReplaceFirst7z(file)
                                                  ELSE Basename7z(file)
             parts == Split(baseName)
             n == Len(parts)
         IN  IF n >= 3
             THEN <<[Name |-> Join(SubSeq(parts, 1, n - 2)),
                     AppID |-> ParseInt(parts[n - 1]),
                     InstalledBuild |-> ParseInt(parts[n])]>>
             ELSE <<>>

\* GameName_AppID_BuildID.7z
BackupFileName(name, appId, buildId) ==
    name \o <<"_">> \o appId \o <<"_">> \o buildId \o <<".7z">>

\* The files scanned: backups named by the convention, for every name over
\* the characters (underscores and ".7z" included), and any other short name
ScanInit ==
    /\ PoolIdle
    /\ ProgramIdle
    /\ dataFile = NoFile
    /\ arg \in {[f |-> "scan", scanner |-> sc, named |-> TRUE, name |-> n,
                  appId |-> a, buildId |-> b, file |-> BackupFileName(n, a, b)] :
                     sc \in {"fileUtils", "report"}, n \in SeqsUpTo(FileChars, MaxName),
                     a \in {<<"1">>, <<"2", "1">>}, b \in {<<"2">>, <<"1", "0">>}}
               \cup {[f |-> "scan", scanner |-> sc, named |-> FALSE, name |-> <<>>,
                      appId |-> <<>>, buildId |-> <<>>, file |-> file] :
                        sc \in {"fileUtils", "report"}, file \in SeqsUpTo(FileChars, MaxFile)}
    /\ out = NoCall

\* getLocalBackups over a directory that holds the one file
GetLocalBackups ==
    /\ arg.f = "scan"
    /\ out = NoCall
    /\ out' = [f |-> "scan", backups |-> ScanFile(arg.scanner, arg.file)]
    /\ UNCHANGED <<items, limit, results, nextIndex, workers, poolState, events,
                   dataFile, gamesData, isActions, mainState, clock,
                   oracleCalls, applied, scanned, proc, arg>>

SpecScan == ScanInit /\ [][GetLocalBackups]_vars

----------------------------------------------------------------------------
(* MAX_CONCURRENT and the workers it gives *)

\* The longest value of MAX_CONCURRENT, in characters
MaxEnv == 2

\* The variable is unset, or holds any string over a sign, digits and a letter
EnvInit ==
    /\ PoolIdle
    /\ ProgramIdle
    /\ dataFile = NoFile
    /\ arg \in {[f |-> "env", env |-> e] :
                   e \in {EnvUnset}
                         \cup {EnvString(c) :
                                  c \in SeqsUpTo({"-", "0", "2", "3", "a"}, MaxEnv)}}
    /\ out = NoCall

\* main from the parseInt of MAX_CONCURRENT to the start of the workers
CallWithMaxConcurrent ==
    /\ arg.f = "env"
    /\ poolState = "idle"
    /\ \E its \in PoolInputs : CallPool(its, 2 * MaxConcurrent(arg.env), "pending")
    /\ UNCHANGED mainVars

SpecEnv == EnvInit /\ [][CallWithMaxConcurrent]_vars

----------------------------------------------------------------------------
(* getLatestBuild over the two SteamCMD outputs of one item *)

\* What SteamCMD prints for the item the first time, and what it prints if
\* it is run again
AttemptsInit ==
    /\ PoolIdle
    /\ ProgramIdle
    /\ dataFile = NoFile
    /\ arg \in {[f |-> "attempts", first |-> a, retry |-> b] :
                   a \in SteamCmdOutputs, b \in SteamCmdOutputs}
    /\ out = NoCall

\* let content = firstContent; before the retry's match, content = retryContent
ContentFirst(pc, attempts) == attempts.first
Content(pc, attempts) ==
    IF pc = "oracle1" THEN attempts.first ELSE attempts.retry

\* The SteamCMD run of the item has ended with the output of its turn
AttemptReturns ==
    /\ workers # <<>>
    /\ OracleReturnsWith({Content(workers[1].pc, arg)})

\* A local run over the one backup a_1_10.7z
AttemptsNext ==
    \/ StartRunWith({FALSE}, {<<GameData("a", Num(1), Num(10))>>}, EnvMaxConcurrent)
    \/ AttemptReturns
    \/ ReviewReturns
    \/ FinishRun

SpecAttempts == AttemptsInit /\ [][AttemptsNext]_vars

----------------------------------------------------------------------------
(* Properties of main (Spec) *)

\* The catalog entry written by the latest update of the mapper
AppliedEntry == gamesData[applied.key]

\* The latest update of the mapper ran to its end
Applied == applied.done /\ ~applied.threw

\* C3: a failure while resolving one item never aborts the batch: no
\* exception leaves the mapper, so mapWithConcurrency is never rejected and
\* main is not ended by its catch handler during the resolution.
C3_NoItemFailureAbortsBatch ==
    /\ poolState # "rejected"
    /\ mainState # "aborted"
    /\ \A w \in DOMAIN workers : workers[w].pc # "failed"

\* C6: SteamCMD is invoked once or twice per item. Once when the first output
\* holds a buildid; twice, and never a third time, when it does not; and the
\* BuildID that getLatestBuild goes on with is the one of the last output,
\* null when the retry output has none either.
C6_BoundedRetry ==
    \A i \in DOMAIN oracleCalls :
        LET c == oracleCalls[i]
            inFlight == {w \in DOMAIN workers :
                            /\ workers[w].currentIndex = i - 1
                            /\ workers[w].pc \in MapperPcs}
        IN  /\ c.invoked <= 2
            /\ Len(c.found) <= c.invoked
            /\ (results[i].set \/ inFlight # {}) => c.invoked >= 1
            /\ (c.found # <<>> /\ c.found[1] # Null) => c.invoked = 1
            /\ (c.found # <<>> /\ c.found[1] = Null) => c.invoked = 2
            /\ \A w \in inFlight :
                   workers[w].pc = "review" =>
                       /\ Len(c.found) = c.invoked
                       /\ workers[w].buildId = c.found[c.invoked]
            /\ results[i].set =>
                   /\ Len(c.found) = c.invoked
                   /\ results[i].val.LatestBuild = NullToUndefined(c.found[c.invoked])

\* C6 witness: an item whose first output had no buildid and whose retry
\* output had none either: two invocations, and a row without LatestBuild.
C6_Witness ==
    \E i \in DOMAIN oracleCalls :
        /\ oracleCalls[i].invoked = 2
        /\ oracleCalls[i].found = <<Null, Null>>
        /\ results[i].set
        /\ results[i].val.LatestBuild = Undefined
        /\ results[i].val.Status = "Could not fetch latest"

\* C7 as stated: workers never write the catalog, the coordinating task
\* does: during the resolution the catalog changes only in steps in which no
\* worker moves.
C7_OnlyCoordinatorWrites ==
    [][(mainState = "resolving" /\ gamesData' # gamesData) => workers' = workers]_vars

\* C7 amended: during the resolution the catalog is written by the workers
\* themselves: it changes only in the step in which the mapper call of one
\* worker returns (its row is stored in that same step, not before), only
\* the entry under that item's AppID changes, no entry is added or removed,
\* and no other worker moves in that step, so the updates are serialized.
C7_WorkerWritesOwnEntry ==
    [][(mainState = "resolving" /\ gamesData' # gamesData) =>
        \E w \in DOMAIN workers :
            LET i == workers[w].currentIndex + 1
                key == KeyOf(ItemField(gamesData, items[i], "AppID"))
            IN  /\ workers[w].pc = "review"
                /\ ~results[i].set /\ results'[i].set
                /\ DOMAIN gamesData' = DOMAIN gamesData
                /\ \A k \in DOMAIN gamesData : k # key => gamesData'[k] = gamesData[k]
                /\ \A v \in DOMAIN workers : v # w => workers'[v] = workers[v]]_vars

\* C7 witness: a catalog entry has been updated by a mapper call while
\* another worker still has its mapper call in flight.
C7_Witness ==
    /\ mainState = "resolving"
    /\ Applied
    /\ AppliedEntry.LatestBuild = Num(11)
    /\ InFlight >= 1
    /\ \E i \in DOMAIN results : results[i].set

\* C8: whenever the output supplies a timestamp (any matched value, 0
\* included) and the update runs to its end, the entry's LatestDate is that
\* timestamp, whatever the previous build and date were.
C8_OracleTimestampWins ==
    (Applied /\ applied.latestTimeUpdated # Null) =>
        AppliedEntry.LatestDate = Str(applied.latestTimeUpdated.v * MsPerSecond)

\* Null and an absent value both mean: no version
SameVersion(a, b) == NullToUndefined(a) = NullToUndefined(b)

\* C9: when the resolved version equals the stored one (absent counts as
\* null), there is no timestamp and a LatestDate is stored, the update
\* leaves LatestDate as it was, also when the clock has advanced.
C9_UnchangedKeepsDate ==
    (/\ Applied
     /\ applied.latestTimeUpdated = Null
     /\ SameVersion(applied.latestBuild, applied.prevBuild)
     /\ applied.prevDate # Undefined) =>
        AppliedEntry.LatestDate = applied.prevDate

\* C10: without a timestamp, LatestDate becomes the instant of the update
\* if and only if the resolved version differs from the stored one or no
\* LatestDate is stored; otherwise it keeps its value.
C10_DateSetIffChanged ==
    (Applied /\ applied.latestTimeUpdated = Null) =>
        AppliedEntry.LatestDate =
            IF ~SameVersion(applied.latestBuild, applied.prevBuild)
               \/ applied.prevDate = Undefined
            THEN Str(applied.now)
            ELSE applied.prevDate

\* C11: every resolution stores the resolved version in the entry: once
\* getLatestBuild has returned for an item, the entry's LatestBuild is the
\* resolved BuildID, a null BuildID clearing a LatestBuild known before; the
\* item is then classified "Could not fetch latest" and the run goes on.
C11_ResolutionStoresVersion ==
    applied.done =>
        /\ applied.key \in DOMAIN gamesData
        /\ gamesData[applied.key].LatestBuild = NullToUndefined(applied.latestBuild)
        /\ applied.latestBuild = Null => applied.status = "Could not fetch latest"
        /\ mainState # "aborted"

\* What one record may do to the catalog: an entry that is there changes in
\* Name and InstalledBuild at most; an id that is not there gets an entry
\* with the record's Name, AppID and InstalledBuild and nothing else
MergeFrame(before, after, backup) ==
    LET key == KeyOf(backup.AppID)
    IN  /\ DOMAIN after = DOMAIN before \cup {key}
        /\ \A k \in DOMAIN before : k # key => after[k] = before[k]
        /\ IF key \in DOMAIN before
           THEN \A f \in DOMAIN before[key] \ {"Name", "InstalledBuild"} :
                    after[key][f] = before[key][f]
           ELSE after[key] = GameData(backup.Name, backup.AppID, backup.InstalledBuild)

\* C12: in the step in which a local run merges its backups into the catalog
\* it has read, every record, in both variants of the loop, changes only
\* Name and InstalledBuild of an entry that is there (LatestBuild, LatestDate,
\* SkidrowLink and the rating fields stay) and inserts an entry with exactly
\* its Name, AppID and InstalledBuild when the id is not there.
C12_MergeFrame ==
    [][(mainState = "idle" /\ mainState' = "resolving" /\ ~isActions') =>
        LET loaded == ReadGamesData(dataFile)
        IN  /\ gamesData' = MergedUpTo(FALSE, loaded, scanned', Len(scanned')).gamesData
            /\ \A n \in 1..Len(scanned') :
                  /\ MergeFrame(MergedUpTo(FALSE, loaded, scanned', n - 1).gamesData,
                                MergedUpTo(FALSE, loaded, scanned', n).gamesData,
                                scanned'[n])
                  /\ MergeFrame(MergedUpTo(TRUE, loaded, scanned', n - 1).gamesData,
                                MergedUpTo(TRUE, loaded, scanned', n).gamesData,
                                scanned'[n])]_vars

\* C12 witness: a local run has merged a listing with a newer backup of a
\* game whose entry has a LatestBuild, a LatestDate and a link, all kept,
\* and a listing with a game that had no entry.
C12_Witness ==
    /\ mainState = "resolving" /\ ~isActions /\ ~applied.done
    /\ dataFile.exists
    /\ \E n \in DOMAIN scanned :
          LET key == KeyOf(scanned[n].AppID)
          IN  /\ key \in DOMAIN dataFile.data
              /\ dataFile.data[key].InstalledBuild # scanned[n].InstalledBuild
              /\ gamesData[key].InstalledBuild = scanned[n].InstalledBuild
              /\ gamesData[key].LatestBuild = Num(10)
              /\ gamesData[key].LatestDate = Str(0)
              /\ gamesData[key].SkidrowLink = SkidrowUrl
    /\ \E n \in DOMAIN scanned :
          LET key == KeyOf(scanned[n].AppID)
          IN  /\ key \notin DOMAIN dataFile.data
              /\ gamesData[key] = scanned[n]

\* The last record of the listing with the id of record n
LastWithId(backups, n) ==
    CHOOSE m \in DOMAIN backups :
        /\ KeyOf(backups[m].AppID) = KeyOf(backups[n].AppID)
        /\ \A j \in DOMAIN backups :
              KeyOf(backups[j].AppID) = KeyOf(backups[n].AppID) => j <= m

\* C13: from the merge of a local run on, every id of the listing has an
\* entry whose InstalledBuild and Name are those of the last record with that
\* id, also when the id occurs twice; the file a finished run has written
\* says the same.
C13_InstalledFromLastRecord ==
    \A n \in DOMAIN scanned :
        LET key == KeyOf(scanned[n].AppID)
            last == scanned[LastWithId(scanned, n)]
        IN  /\ key \in DOMAIN gamesData
            /\ gamesData[key].InstalledBuild = last.InstalledBuild
            /\ gamesData[key].Name = last.Name
            /\ mainState = "finished" =>
                  /\ dataFile.data[key].InstalledBuild = last.InstalledBuild
                  /\ dataFile.data[key].Name = last.Name

\* C13 witness: a local run whose listing holds two backups of game 1, build
\* 10 and then build 11, has finished with InstalledBuild 11 in the file.
C13_Witness ==
    /\ mainState = "finished"
    /\ Len(scanned) = 2
    /\ scanned[1].AppID = scanned[2].AppID
    /\ scanned[1].InstalledBuild = Num(10)
    /\ dataFile.data["1"].InstalledBuild = Num(11)

\* C14: no entry is ever removed: the merge keeps every id of the catalog
\* that was read, the resolution keeps every id of the catalog in memory, in
\* every interleaving of the workers, and the file that is written holds
\* every id of the file that was read, ids without a backup included.
C14_NoEntryRemoved ==
    [][/\ (mainState = "idle" /\ mainState' = "resolving") =>
              DOMAIN ReadGamesData(dataFile) \subseteq DOMAIN gamesData'
       /\ mainState = "resolving" => DOMAIN gamesData \subseteq DOMAIN gamesData'
       /\ (dataFile' # dataFile /\ dataFile'.parses) =>
              DOMAIN dataFile.data \subseteq DOMAIN dataFile'.data]_vars

\* C14 witness: a local run that found a backup of game 1 only has finished
\* and the file it wrote still holds game 2.
C14_Witness ==
    /\ mainState = "finished" /\ ~isActions
    /\ scanned # <<>>
    /\ \A n \in DOMAIN scanned : KeyOf(scanned[n].AppID) = "1"
    /\ \E i \in DOMAIN results : results[i].set
    /\ "2" \in DOMAIN dataFile.data

\* C15: InstalledBuild is written by the merge only: no step of the
\* resolution changes it, and a run in Actions mode starts from the entries
\* as read. LatestBuild and LatestDate are written by the resolution only: the
\* merge leaves them as read, and an entry it inserts has neither.
C15_FieldProvenance ==
    [][/\ mainState = "resolving" =>
              \A k \in DOMAIN gamesData :
                  /\ k \in DOMAIN gamesData'
                  /\ gamesData'[k].InstalledBuild = gamesData[k].InstalledBuild
       /\ (mainState = "idle" /\ mainState' = "resolving") =>
              LET loaded == ReadGamesData(dataFile)
              IN  /\ isActions' => gamesData' = loaded
                  /\ \A k \in DOMAIN gamesData' :
                        IF k \in DOMAIN loaded
                        THEN /\ gamesData'[k].LatestBuild = loaded[k].LatestBuild
                             /\ gamesData'[k].LatestDate = loaded[k].LatestDate
                        ELSE /\ gamesData'[k].LatestBuild = Undefined
                             /\ gamesData'[k].LatestDate = Undefined]_vars

\* C15 witness: the resolution has updated an entry whose InstalledBuild the
\* merge of this run had changed from 10 to 11, and an entry this run
\* inserted has been resolved.
C15_Witness ==
    /\ Applied /\ ~isActions
    /\ dataFile.exists
    /\ "1" \in DOMAIN dataFile.data
    /\ dataFile.data["1"].InstalledBuild = Num(10)
    /\ gamesData["1"].InstalledBuild = Num(11)
    /\ gamesData["1"].LatestBuild = Num(11)
    /\ "2" \notin DOMAIN dataFile.data
    /\ "2" \in DOMAIN gamesData
    /\ gamesData["2"].LatestDate # Undefined

\* C16: the status is one of three for every pair of values, by three rules
\* in order: no latest build gives "Could not fetch latest"; else a latest
\* build above the installed one, taken as 0 when it is absent, gives "Update
\* available"; else "Up to date". An absent installed build alone never
\* gives "Could not fetch latest".
C16_StatusRules ==
    out.f = "status" =>
        LET latest == arg.latestBuild
            installed == arg.installedBuild
            absent == installed \in {Null, Undefined}
            above == IF absent THEN latest.v > 0
                     ELSE installed.t = "number" /\ latest.v > installed.v
        IN  /\ out.val \in {"Could not fetch latest", "Update available", "Up to date"}
            /\ out.val = "Could not fetch latest" <=> latest \in {Null, Undefined}
            /\ latest \notin {Null, Undefined} =>
                  (out.val = "Update available" <=> above)

\* C16 witness: latest build 3 with no installed build has been classified
\* "Update available".
C16_Witness ==
    /\ out.f = "status"
    /\ arg.installedBuild = Undefined
    /\ arg.latestBuild = Num(3)
    /\ out.val = "Update available"

\* C17: over consecutive runs on one game with installed build 10 for which
\* SteamCMD prints build 10 and no timestamp every time, LatestDate is set
\* by the first resolution and keeps that value ever after, in memory and in
\* the file, while the clock advances; and every row says "Up to date".
C17_DateSetOnce ==
    /\ [][/\ \A k \in DOMAIN dataFile.data :
                dataFile.data[k].LatestDate # Undefined =>
                    /\ k \in DOMAIN dataFile'.data
                    /\ dataFile'.data[k].LatestDate = dataFile.data[k].LatestDate
          /\ mainState = "resolving" =>
                \A k \in DOMAIN gamesData :
                    gamesData[k].LatestDate # Undefined =>
                        gamesData'[k].LatestDate = gamesData[k].LatestDate]_vars
    /\ [](\A i \in DOMAIN results :
              results[i].set =>
                  /\ results[i].val.Status = "Up to date"
                  /\ gamesData["1"].LatestDate = results[i].val.LatestDate
                  /\ results[i].val.LatestDate # Undefined)

\* C17 witness: a later run, in Actions mode at instant 2, has resolved the
\* game again and finished, and the file still has the LatestDate of
\* instant 1.
C17_Witness ==
    /\ mainState = "finished" /\ isActions
    /\ Applied /\ applied.now = 2
    /\ applied.prevDate = Str(1)
    /\ dataFile.data["1"].LatestDate = Str(1)
    /\ results[1].val.Status = "Up to date"

\* C18: a run that finds games.json missing goes on with an empty catalog;
\* a run that finds it malformed ends there, with a non-zero exit code: it
\* checks no game, does not go on with an empty catalog and leaves the file
\* as it is. For every readGamesData of the repository.
C18_MalformedIsFatal ==
    [][mainState = "idle" =>
          /\ (dataFile.exists /\ ~dataFile.parses) =>
                /\ mainState' = "fatal"
                /\ proc'.exitCode = 1
                /\ items' = <<>>
                /\ dataFile' = dataFile
          /\ ~dataFile.exists =>
                /\ mainState' = "resolving"
                /\ isActions' => gamesData' = <<>>]_vars

\* C19: when writeGamesData fails, the run generates no report, runs no git
\* command, does not log that it finished, and ends with exit code 1.
C19_WriteFailureIsFatal ==
    (mainState = "fatal" /\ poolState = "returned") =>
        /\ ~proc.report
        /\ proc.git = "none"
        /\ ~proc.finished
        /\ proc.exitCode = 1

\* C19 witness: every game was resolved, then the write broke off and left
\* games.json cut short.
C19_Witness ==
    /\ mainState = "fatal" /\ poolState = "returned"
    /\ results # <<>>
    /\ \A i \in DOMAIN results : results[i].set
    /\ dataFile = Malformed
    /\ proc.exitCode = 1

\* C20: the appreviews request is sent once per item, whether SteamCMD was
\* run once or twice, and not before the extraction is over; whatever way it
\* fails (request error or timeout, non-2xx status, unparsable body) the five
\* rating fields are null and the BuildID and TimeUpdated that getLatestBuild
\* returns are those extracted from the SteamCMD output.
C20_ReviewFetchIsolated ==
    /\ [](\A i \in DOMAIN oracleCalls :
              /\ oracleCalls[i].fetched <= 1
              /\ results[i].set => oracleCalls[i].fetched = 1
              /\ oracleCalls[i].fetched = 1 =>
                    Len(oracleCalls[i].found) = oracleCalls[i].invoked
              /\ \A w \in DOMAIN workers :
                    (workers[w].currentIndex = i - 1 /\ workers[w].pc = "review") =>
                        /\ oracleCalls[i].fetched = 1
                        /\ workers[w].buildId =
                               oracleCalls[i].found[Len(oracleCalls[i].found)])
    /\ [][\A w \in DOMAIN workers :
              (mainState = "resolving" /\ workers[w].pc = "review"
               /\ workers'[w] # workers[w]) =>
                  /\ applied'.latestBuild = workers[w].buildId
                  /\ applied'.latestTimeUpdated = workers[w].timeUpdated
                  /\ applied'.reviewKind # "ok" => applied'.review = AllNullReview]_vars

\* C20 witness: for an item whose first SteamCMD output had no buildid, the
\* request came back with a non-2xx status: one request, null rating fields,
\* and build 11 with timestamp 1 from the retry output.
C20_Witness ==
    /\ Applied
    /\ applied.reviewKind = "status"
    /\ applied.review = AllNullReview
    /\ applied.latestBuild = Num(11)
    /\ applied.latestTimeUpdated = Num(1)
    /\ \E i \in DOMAIN oracleCalls :
          /\ results[i].set
          /\ results[i].val.LatestBuild = Num(11)
          /\ oracleCalls[i].invoked = 2
          /\ oracleCalls[i].fetched = 1

\* The body has the expected shape: a query_summary with three numbers and
\* a string
WellShaped(body) ==
    /\ body.query_summary
    /\ body.total_reviews.t = "number"
    /\ body.total_positive.t = "number"
    /\ body.total_negative.t = "number"
    /\ body.review_score_desc.t = "string"

\* C21: a response body that deviates from the expected shape in any way
\* (no query_summary, or one of the four properties missing or of the wrong
\* type) makes all five rating fields null.
C21_ShapeDeviationAllNull ==
    (out.f = "review" /\ arg.outcome.kind = "ok" /\ ~WellShaped(arg.outcome.body)) =>
        out.val = AllNullReview

\* The five rating fields of a catalog entry or a review summary, as stored
StoredRating(review) ==
    [RatingPercent |-> NullToUndefined(review.ratingPercent),
     ReviewsTotal |-> NullToUndefined(review.total),
     ReviewsPositive |-> NullToUndefined(review.positive),
     ReviewsNegative |-> NullToUndefined(review.negative),
     ReviewSummary |-> NullToUndefined(review.summary)]

\* C22: the rating fields are not sticky: once getLatestBuild has returned
\* for an item, each of the entry's five rating fields holds the value of
\* this run, and is absent when this run did not obtain it, whatever an
\* earlier run had stored.
C22_RatingOverwritten ==
    applied.done =>
        /\ applied.key \in DOMAIN gamesData
        /\ \A f \in DOMAIN StoredRating(applied.review) :
              gamesData[applied.key][f] = StoredRating(applied.review)[f]

\* The catalog games.json holds
Stored(file) == IF file.exists /\ file.parses THEN file.data ELSE <<>>

\* C23: the link is sticky. A resolution stores the first link of the
\* lookup when there is one; when the lookup returns nothing or fails, the
\* entry's SkidrowLink stays as it was, and the row carries the entry's
\* link. A link that is set, in the catalog in memory or in games.json, is
\* still set after every step of every run.
C23_LinkSticky ==
    [][/\ (mainState = "resolving" /\ nextIndex' = nextIndex + 1) =>
              LET key == applied'.key
                  links == out'.val
              IN  /\ gamesData'[key].SkidrowLink =
                         IF Len(links) > 0 THEN links[1] ELSE gamesData[key].SkidrowLink
                  /\ Truthy(gamesData'[key].SkidrowLink) =>
                         results'[Len(results')].val.SkidrowLink = gamesData'[key].SkidrowLink
                  /\ \A k \in DOMAIN gamesData \ {key} : gamesData'[k] = gamesData[k]
       /\ \A k \in DOMAIN Stored(dataFile) :
              Truthy(Stored(dataFile)[k].SkidrowLink) =>
                  /\ k \in DOMAIN Stored(dataFile')
                  /\ Truthy(Stored(dataFile')[k].SkidrowLink)
                  /\ mainState' = "resolving" =>
                        (k \in DOMAIN gamesData' /\ Truthy(gamesData'[k].SkidrowLink))
      ]_vars

\* A run whose lookup found nothing for a game that has a link from an
\* earlier run: the entry and the row keep the link
C23_Witness ==
    /\ mainState = "resolving"
    /\ nextIndex > 0
    /\ out = [f |-> "links", val |-> <<>>]
    /\ Truthy(Get(Stored(dataFile), applied.key, "SkidrowLink"))
    /\ gamesData[applied.key].SkidrowLink = Stored(dataFile)[applied.key].SkidrowLink
    /\ results[Len(results)].val.SkidrowLink = gamesData[applied.key].SkidrowLink

\* The places of a text where the key is followed by a quoted integer
Occurrences(content, key) ==
    {i \in DOMAIN content : content[i].key = key /\ content[i].int}

\* C26: for buildid and for timeupdated, a text with one or more
\* occurrences of the key followed by a quoted integer gives the value of
\* the first occurrence; a text with none gives null, and no error is raised.
C26_FirstMatchWins ==
    out.f = "extract" =>
        /\ ~out.threw
        /\ \A key \in {"buildid", "timeupdated"} :
              LET occ == Occurrences(arg.content, key)
              IN  IF occ = {}
                  THEN out[key] = Null
                  ELSE \E i \in occ :
                          /\ \A j \in occ : i <= j
                          /\ out[key] = Num(arg.content[i].val)

\* A text with the buildid key before a non-integer value and then two
\* buildids: the first of the two is extracted
C26_Witness ==
    /\ out.f = "extract"
    /\ arg.content = <<TextLine("buildid"), BuildIdLine(11), BuildIdLine(10)>>
    /\ out.buildid = Num(11)
    /\ out.timeupdated = Null

\* C24: whatever the exit status of SteamCMD, zero or not, the text the
\* client hands to the extraction is the output the process produced, so a
\* buildid it printed is found; this for every client of the repository.
C24_OutputWhateverExitStatus ==
    (out.f = "oracle" /\ arg.run.status \in {"zero", "nonzero"}) =>
        /\ out.text = arg.run.stdout
        /\ Match(arg.run.stdout, "buildid") # Null =>
              out.BuildID = Match(arg.run.stdout, "buildid")

\* C25: the rows of the report are in ascending order of their names
\* compared without regard to case, and rows whose names are equal under
\* that comparison are in the order of the input list.
C25_SortedByNameIgnoringCase ==
    out.f = "report" =>
        /\ Len(out.sortedResults) = Len(arg.results)
        /\ \A i, j \in DOMAIN out.sortedResults :
              i < j =>
                 LET x == out.sortedResults[i]
                     y == out.sortedResults[j]
                 IN  /\ LetterOf(x.Name) <= LetterOf(y.Name)
                     /\ LetterOf(x.Name) = LetterOf(y.Name) => x.index < y.index

\* C27: the mode selects the candidates. An Actions run takes exactly the
\* entries of the loaded catalog, one candidate per entry, scans nothing,
\* and changes no entry's Name or InstalledBuild up to and including the
\* write of games.json; a local run takes its candidates from the scan.
C27_ModeSelectsCandidates ==
    [][/\ (mainState = "idle" /\ mainState' = "resolving") =>
              IF isActions'
              THEN /\ scanned' = <<>>
                   /\ gamesData' = Stored(dataFile)
                   /\ Len(items') = Cardinality(DOMAIN Stored(dataFile))
                   /\ \A k \in DOMAIN Stored(dataFile) :
                         \E i \in DOMAIN items' :
                            /\ items'[i].alias = k
                            /\ items'[i].Name = Stored(dataFile)[k].Name
                            /\ items'[i].AppID = Stored(dataFile)[k].AppID
              ELSE \A i \in DOMAIN items' :
                      \E j \in DOMAIN scanned' :
                         ItemField(gamesData', items'[i], "AppID") = scanned'[j].AppID
       /\ (mainState = "resolving" /\ isActions) =>
              /\ DOMAIN gamesData' = DOMAIN gamesData
              /\ \A k \in DOMAIN gamesData :
                    /\ gamesData'[k].Name = gamesData[k].Name
                    /\ gamesData'[k].InstalledBuild = gamesData[k].InstalledBuild
              /\ mainState' = "finished" =>
                    \A k \in DOMAIN Stored(dataFile) :
                       /\ k \in DOMAIN Stored(dataFile')
                       /\ Stored(dataFile')[k].Name = Stored(dataFile)[k].Name
                       /\ Stored(dataFile')[k].InstalledBuild =
                             Stored(dataFile)[k].InstalledBuild
      ]_vars

\* An Actions run over a catalog of two games has resolved both and written
\* games.json
C27_Witness ==
    /\ isActions
    /\ mainState = "finished"
    /\ Len(items) = 2
    /\ \A i \in DOMAIN results : results[i].set
    /\ Applied
    /\ AppliedEntry.LatestBuild = Num(11)

\* C28: the naming convention round-trips. A file GameName_AppID_BuildID.7z
\* yields exactly one record, with that Name (underscores included), AppID
\* and InstalledBuild; a file that does not end in .7z, or has fewer than
\* three parts between underscores, yields no record.
C28_FileNameRoundTrip ==
    out.f = "scan" =>
        /\ arg.named =>
              out.backups = <<[Name |-> arg.name,
                               AppID |-> Num(DigitsValue(arg.appId)),
                               InstalledBuild |-> Num(DigitsValue(arg.buildId))]>>
        /\ (\/ ~EndsWith7z(arg.file)
            \/ Cardinality({i \in DOMAIN arg.file : arg.file[i] = "_"}) < 2) =>
              out.backups = <<>>

\* The mapper calls in the order in which they were started
Starts == SelectSeq(events, LAMBDA ev : ev.e = "start")

\* C30: every index is claimed by exactly one worker. The mapper calls are
\* started for the indexes 0, 1, 2, ... in this order, each once and none
\* beyond the items; two workers never hold the same index; and when
\* mapWithConcurrency returns, every item has had its one call, which
\* settled once.
C30_EachIndexClaimedOnce ==
    /\ \A k \in DOMAIN Starts : Starts[k].i = k - 1
    /\ Len(Starts) <= Len(items)
    /\ \A w \in DOMAIN workers :
          workers[w].pc # "done" =>
              /\ workers[w].currentIndex < Len(Starts)
              /\ \A v \in DOMAIN workers :
                    (v # w /\ workers[v].pc # "done") =>
                        workers[v].currentIndex # workers[w].currentIndex
    /\ poolState = "returned" =>
          /\ Len(Starts) = Len(items)
          /\ \A i \in DOMAIN items : Cardinality(SettledAt(i - 1)) = 1

\* Two workers over three items: the call for item 1 settled first, its
\* worker claimed item 2, and the pool has returned
C30_Witness ==
    /\ poolState = "returned"
    /\ Len(items) = 3
    /\ Len(workers) = 2
    /\ events = <<[e |-> "start", i |-> 0], [e |-> "start", i |-> 1],
                  [e |-> "settle", i |-> 1], [e |-> "start", i |-> 2],
                  [e |-> "settle", i |-> 2], [e |-> "settle", i |-> 0]>>

\* The settle events of a run
Settles(ev) == {k \in DOMAIN ev : ev[k].e = "settle"}

\* C29: the catalog update of one item is atomic with respect to the other
\* workers. In the step in which a mapper call ends, the previous
\* LatestBuild and LatestDate it read are those of the entry just before the
\* step, no other worker moves, and no entry but the item's own changes; the
\* catalog changes in no other step of the resolution.
C29_UpdateIsAtomic ==
    [][mainState = "resolving" =>
          IF Settles(events') # Settles(events)
          THEN /\ Cardinality(Settles(events')) = Cardinality(Settles(events)) + 1
               /\ Cardinality({w \in DOMAIN workers : workers'[w] # workers[w]}) = 1
               /\ applied'.done
               /\ applied'.prevBuild = Get(gamesData, applied'.key, "LatestBuild")
               /\ applied'.prevDate = Get(gamesData, applied'.key, "LatestDate")
               /\ \A k \in DOMAIN gamesData \ {applied'.key} :
                     gamesData'[k] = gamesData[k]
               /\ DOMAIN gamesData' = DOMAIN gamesData
          ELSE gamesData' = gamesData
      ]_vars

\* Two backups of one AppID that is new to the catalog, resolved by two
\* workers: the second update read the LatestBuild the first one wrote
C29_Witness ==
    /\ mainState = "resolving"
    /\ Len(items) = 2
    /\ Len(workers) = 2
    /\ EntryKey(gamesData, items[1]) = EntryKey(gamesData, items[2])
    /\ applied.key \notin DOMAIN Stored(dataFile)
    /\ Cardinality(Settles(events)) = 2
    /\ Applied
    /\ applied.prevBuild # Undefined
    /\ applied.prevDate # Undefined

\* C31: games.json is written once per run, after mapWithConcurrency has
\* returned: the file changes, and the run finishes, only in a step taken
\* with every worker done and every item's row stored; what is written is
\* the catalog in memory after all updates; the report is generated in no
\* step before that write; and nothing is written after it.
C31_WrittenOnceAfterPool ==
    [][/\ (dataFile' # dataFile \/ (mainState' = "finished" /\ mainState # "finished")) =>
              /\ mainState = "resolving"
              /\ \A w \in DOMAIN workers : workers[w].pc = "done"
              /\ \A i \in DOMAIN results : results[i].set
              /\ Cardinality(Settles(events)) = Len(items)
       /\ (mainState' = "finished" /\ mainState # "finished") =>
              /\ dataFile' = WriteGamesData(gamesData)
              /\ poolState' = "returned"
       /\ (proc'.report /\ ~proc.report) =>
              /\ mainState' = "finished"
              /\ dataFile' = WriteGamesData(gamesData')
       /\ mainState \in {"finished", "fatal", "aborted"} => dataFile' = dataFile
      ]_vars

\* A local run over two new games has resolved both, written the catalog
\* with both updates and generated the report
C31_Witness ==
    /\ mainState = "finished"
    /\ ~isActions
    /\ Len(items) = 2
    /\ Len(workers) = 2
    /\ proc.report
    /\ dataFile = WriteGamesData(gamesData)
    /\ \A k \in DOMAIN gamesData : gamesData[k].LatestBuild # Undefined

\* The items of the batch have pairwise distinct ids
DistinctIds ==
    \A i, j \in DOMAIN items :
        i # j => EntryKey(gamesData, items[i]) # EntryKey(gamesData, items[j])

\* The catalog the resolution began with
AtStart ==
    IF isActions THEN ReadGamesData(dataFile)
    ELSE MergeBackups(ReadGamesData(dataFile), scanned).gamesData

\* C32: per-item independence. In a batch of pairwise distinct ids, the row
\* and the catalog entry an item's update leaves are those computed from
\* the item's own oracle and rating outcomes and its own entry as it was
\* when the resolution began; and whatever the outcomes of the other items,
\* an item is not left without its row: when the batch ends, every item
\* other than one whose own update failed has its row.
C32_PerItemIndependence ==
    /\ []((DistinctIds /\ mainState = "aborted") =>
             \A i \in DOMAIN items :
                 EntryKey(gamesData, items[i]) # applied.key => results[i].set)
    /\ [][(DistinctIds /\ mainState = "resolving"
           /\ Settles(events') # Settles(events) /\ ~applied'.threw) =>
             LET key == applied'.key
                 i == CHOOSE n \in DOMAIN items : EntryKey(gamesData, items[n]) = key
                 own == [k \in {key} |-> AtStart[key]]
                 item == IF items[i].alias = "" THEN items[i]
                         ELSE Item("", AtStart[key])
                 r == MapperBody(own, item,
                                 LatestBuildInfo(applied'.latestBuild,
                                                 applied'.latestTimeUpdated,
                                                 applied'.review),
                                 applied'.now)
             IN  /\ gamesData'[key] = r.gamesData[key]
                 /\ results'[i] = [set |-> TRUE, val |-> r.row]
      ]_vars

\* Record n of a scan is new or changed: no earlier record of the scan and
\* no loaded entry has its id, or the InstalledBuild the entry has when the
\* record is merged (that of the latest earlier record with the id, else
\* the loaded one) is another
NewOrChanged(loaded, backups, n) ==
    LET key == KeyOf(backups[n].AppID)
        earlier == {m \in 1..(n - 1) : KeyOf(backups[m].AppID) = key}
        latest == CHOOSE m \in earlier : \A j \in earlier : j <= m
    IN  IF earlier # {}
        THEN backups[latest].InstalledBuild # backups[n].InstalledBuild
        ELSE \/ key \notin DOMAIN loaded
             \/ loaded[key].InstalledBuild # backups[n].InstalledBuild

\* C33: in a local run a scanned record becomes a candidate, is resolved
\* and gets a row if and only if its id is new to the catalog or its
\* InstalledBuild differs from the entry's when the record is merged; a
\* record that differs in Name only sets the entry's Name and nothing else
\* comes of it.
C33_ResolveSetPolicy ==
    /\ [][(mainState = "idle" /\ mainState' = "resolving" /\ ~isActions') =>
             LET loaded == Stored(dataFile)
                 all == [n \in DOMAIN scanned' |-> n]
                 sel == SelectSeq(all, LAMBDA n : NewOrChanged(loaded, scanned', n))
             IN  /\ Len(items') = Len(sel)
                 /\ \A k \in DOMAIN sel :
                       ItemField(gamesData', items'[k], "AppID") = scanned'[sel[k]].AppID
                 /\ \A n \in DOMAIN scanned' :
                       LET key == KeyOf(scanned'[n].AppID)
                           later == {m \in DOMAIN scanned' :
                                        m > n /\ KeyOf(scanned'[m].AppID) = key}
                       IN  later = {} => gamesData'[key].Name = scanned'[n].Name
      ]_vars
    /\ [](mainState \in {"resolving", "finished"} =>
             /\ Len(results) = Len(items)
             /\ Len(oracleCalls) = Len(items)
             /\ \A i \in DOMAIN oracleCalls :
                   oracleCalls[i].invoked = 0 => ~results[i].set)
    /\ [](mainState = "finished" =>
             \A i \in DOMAIN items : results[i].set /\ oracleCalls[i].invoked > 0)

\* A local run finds the backup of game 1 under another name with the
\* build the catalog has: the entry is renamed and nothing is resolved
C33_Witness ==
    /\ mainState = "resolving"
    /\ ~isActions
    /\ scanned = <<GameData("B", Num(1), Num(10))>>
    /\ Get(Stored(dataFile), "1", "Name") = "a"
    /\ gamesData["1"].Name = "B"
    /\ gamesData["1"].LatestBuild = Stored(dataFile)["1"].LatestBuild
    /\ items = <<>>
    /\ results = <<>>

\* The worker count MAX_CONCURRENT asks for: 4 when it is unset or has no
\* integer to parse, the parsed integer otherwise
Requested(env) ==
    IF env.set /\ ParseInt(env.chars) # NaN THEN ParseInt(env.chars).v ELSE 4

\* C34: the effective worker count is a positive integer: 4 when
\* MAX_CONCURRENT is unset or has no integer to parse, max(1, the parsed
\* integer) otherwise; the workers started are min(that count, the number
\* of items).
C34_EffectiveWorkerCount ==
    (arg.f = "env" /\ poolState = "running") =>
        /\ limit = 2 * Requested(arg.env)
        /\ Concurrency(limit) = Max(1, Requested(arg.env))
        /\ Concurrency(limit) >= 1
        /\ Len(workers) = Min(Max(1, Requested(arg.env)), Len(items))

\* MAX_CONCURRENT is "-2" and there are three items: one worker is started
C34_Witness ==
    /\ arg.f = "env"
    /\ arg.env = EnvString(<<"-", "2">>)
    /\ poolState = "running"
    /\ Len(items) = 3
    /\ Len(workers) = 1
    /\ InFlight = 1

\* C35: after any resolution of an entry the entry has a LatestDate,
\* whichever branch of the date reconciliation was taken and also when the
\* BuildID is null; and the row of the item carries the LatestDate and the
\* LatestBuild that this update stored in the entry.
C35_DatePresentAndRowAgrees ==
    /\ [](applied.done =>
             /\ applied.key \in DOMAIN gamesData
             /\ gamesData[applied.key].LatestDate # Undefined)
    /\ [][(mainState = "resolving" /\ Settles(events') # Settles(events)) =>
             LET w == CHOOSE v \in DOMAIN workers : workers'[v] # workers[v]
                 row == results'[workers[w].currentIndex + 1]
             IN  /\ row.set
                 /\ row.val.LatestDate = gamesData'[applied'.key].LatestDate
                 /\ row.val.LatestBuild = gamesData'[applied'.key].LatestBuild
      ]_vars

\* The output of the last SteamCMD run made for the item
LastContent ==
    IF oracleCalls[1].invoked = 2 THEN arg.retry ELSE arg.first

\* C36: the BuildID and the TimeUpdated that getLatestBuild returns are
\* extracted from one and the same SteamCMD output, the last one made for the
\* item: SteamCMD is run again exactly when the first output has no buildid,
\* and then nothing of the first output is returned, stored in the catalog or
\* put in the row.
C36_BothFromLastOutput ==
    /\ [](\A w \in DOMAIN workers :
              workers[w].pc \in {"oracle2", "review", "done", "failed"} =>
                  (oracleCalls[1].invoked = 2 <=> Match(arg.first, "buildid") = Null))
    /\ [](\A w \in DOMAIN workers :
              workers[w].pc = "review" =>
                  /\ workers[w].buildId = Match(LastContent, "buildid")
                  /\ workers[w].timeUpdated = Match(LastContent, "timeupdated"))
    /\ [](applied.done =>
              /\ applied.latestBuild = Match(LastContent, "buildid")
              /\ applied.latestTimeUpdated = Match(LastContent, "timeupdated"))
    /\ [](Applied =>
              /\ AppliedEntry.LatestBuild
                     = NullToUndefined(Match(LastContent, "buildid"))
              /\ results[1].val.LatestBuild = AppliedEntry.LatestBuild
              /\ Match(LastContent, "timeupdated") = Null =>
                     AppliedEntry.LatestDate = Str(applied.now))

\* C36 witness: the first output had a timeupdated and no buildid, the retry
\* output a buildid and no timeupdated: build 11 is returned with a null
\* TimeUpdated and the entry is dated with the current time.
C36_Witness ==
    /\ Applied
    /\ arg.first = <<TimeUpdatedLine(1)>>
    /\ arg.retry = <<BuildIdLine(11)>>
    /\ oracleCalls[1].invoked = 2
    /\ applied.latestBuild = Num(11)
    /\ applied.latestTimeUpdated = Null
    /\ AppliedEntry.LatestBuild = Num(11)
    /\ AppliedEntry.LatestDate = Str(applied.now)

\* No item of the batch has the catalog key
NotCandidate(key) ==
    \A i \in DOMAIN items : EntryKey(gamesData, items[i]) # key

\* No record of the scan has the id, or every record that has it carries the
\* InstalledBuild of the loaded entry
UnchangedButName(loaded, key) ==
    \A n \in DOMAIN scanned :
        KeyOf(scanned[n].AppID) = key =>
            scanned[n].InstalledBuild = loaded[key].InstalledBuild

\* C37: a run leaves untouched every entry that is not in its candidate
\* list. In a local run an entry whose id is not in the scan, or whose
\* records in the scan differ from it in Name at most, is not a candidate;
\* and an entry that is not a candidate has, in the catalog the run writes,
\* every field other than Name as it was in the catalog the run loaded.
C37_NonCandidatesUntouched ==
    /\ []((mainState = "resolving" /\ ~isActions) =>
             \A key \in DOMAIN Stored(dataFile) :
                 UnchangedButName(Stored(dataFile), key) => NotCandidate(key))
    /\ [][(mainState = "resolving" /\ mainState' = "finished") =>
             \A key \in DOMAIN Stored(dataFile) :
                 NotCandidate(key) =>
                     /\ key \in DOMAIN Stored(dataFile')
                     /\ \A f \in DOMAIN Stored(dataFile)[key] \ {"Name"} :
                           Stored(dataFile')[key][f] = Stored(dataFile)[key][f]
      ]_vars

\* C37 witness: the catalog held games 1 and 2, both at build 10 with
\* LatestBuild 10; the scan found game 2 unchanged and a newer backup of
\* game 1. Game 1 was resolved to build 11 and the catalog written, in
\* which game 2 is as it was.
C37_Witness ==
    /\ mainState = "finished"
    /\ ~isActions
    /\ scanned = <<GameData("B", Num(2), Num(10)), GameData("a", Num(1), Num(11))>>
    /\ Len(items) = 1
    /\ DOMAIN Stored(dataFile) = {"1", "2"}
    /\ Stored(dataFile)["1"].InstalledBuild = Num(11)
    /\ Stored(dataFile)["1"].LatestBuild = Num(11)
    /\ Stored(dataFile)["2"].InstalledBuild = Num(10)
    /\ Stored(dataFile)["2"].LatestBuild = Num(10)

\* Every entry of the catalog is stored under the key of its own AppID
KeyedByAppID(gd) == \A key \in DOMAIN gd : KeyOf(gd[key].AppID) = key

\* C38: catalog keying. When the catalog loaded is keyed by AppID, so is the
\* catalog in memory after every merge and every resolution of the run;
\* every item of the batch has an entry under its AppID from the start of
\* the resolution on, so the update of the mapper finds its entry and no
\* exception leaves the mapper for a missing entry.
C38_KeyedByAppID ==
    (mainState \in {"resolving", "aborted"} /\ KeyedByAppID(Stored(dataFile))) =>
        /\ KeyedByAppID(gamesData)
        /\ \A i \in DOMAIN items : EntryKey(gamesData, items[i]) \in DOMAIN gamesData
        /\ applied.done => (applied.key \in DOMAIN gamesData /\ ~applied.threw)
        /\ mainState # "aborted"

\* C38 witness: a local run merged two new games, one of them from a file
\* name without a number for the AppID; both were resolved to build 10, each
\* update finding its entry.
C38_Witness ==
    /\ Applied
    /\ mainState = "resolving"
    /\ ~isActions
    /\ scanned = <<GameData("a", Num(1), Num(10)), GameData("B", NaN, Num(10))>>
    /\ KeyedByAppID(Stored(dataFile))
    /\ Len(items) = 2
    /\ \A i \in DOMAIN items : results[i].set
    /\ DOMAIN gamesData = {"1", "NaN"}
    /\ gamesData["1"].LatestBuild = Num(10)
    /\ gamesData["NaN"].AppID = NaN
    /\ gamesData["NaN"].LatestBuild = Num(10)

\* C39: games.json is unchanged on abort. No step of main before
\* writeGamesData touches the file: when main ends in readGamesData, or
\* through an exception leaving the resolution, the file is what it was when
\* the run began, whatever was merged or updated in memory; the process
\* ends with exit code 1, without report and without git command.
C39_FileUnchangedOnAbort ==
    /\ [][~(mainState = "resolving" /\ poolState' = "returned") =>
             dataFile' = dataFile]_vars
    /\ []((mainState = "aborted" \/ (mainState = "fatal" /\ poolState = "idle")) =>
             /\ proc.exitCode = 1
             /\ ~proc.report
             /\ proc.git = "none")

\* C39 witness: two items; one was resolved and its entry updated in
\* memory, then the update of the other threw and the run was aborted:
\* games.json still holds the catalog without that update.
C39_Witness ==
    /\ mainState = "aborted"
    /\ applied.threw
    /\ \E i \in DOMAIN items :
          /\ results[i].set
          /\ results[i].val.LatestBuild = Num(11)
          /\ LET key == EntryKey(gamesData, items[i])
             IN  /\ gamesData[key].LatestBuild = Num(11)
                 /\ key \in DOMAIN Stored(dataFile)
                 /\ Stored(dataFile)[key].LatestBuild = Num(10)
                 /\ Stored(dataFile)[key].InstalledBuild = Num(10)

====
